---- MODULE Spec2Model ----
(***************************************************************************)
(* AdStash: the REST handlers over the asset, tag, asset-tag and personal  *)
(* access token tables, as a state machine.  One action per route handler; *)
(* every handler runs as one database session, so an action is the whole   *)
(* handler.  Ids are uuids (defaultRandom): modelled as fresh integers     *)
(* drawn from a counter, never reused.  An optional JSON field or a        *)
(* nullable column is <<>> when absent / NULL and <<v>> when it holds v.   *)
(* The column updatedAt holds wall-clock time only and is left out.        *)
(***************************************************************************)
EXTENDS Integers, Sequences, FiniteSets, Bags, TLC

\* ---------------------------------------------------------------- bounds
MaxAssets == 2
MaxTags == 2
MaxTokens == 2
MaxTagIds == 2
MaxNameLen == 2
MaxLinkCopies == 2
MaxRows == 2
MaxCalls == 2
MaxFiles == 2
MaxCaptures == 1
MaxElements == 2
MaxMatches == 1

\* ---------------------------------------------------------------- values
Users == {"A", "B"}
NoUser == "anonymous"
Sessions == Users \cup {NoUser}

Null == <<>>
Undefined == <<>>

ASSETS_BUCKET == "assets"
PREVIEWS_BUCKET == "previews"
DEFAULT_COLOR == "#6b7280"

\* uuids a request can name: every id handed out so far, and 0, a well-formed
\* uuid that was never handed out
Named(next) == 0 .. (next - 1)

\* x || null on an optional number / an optional string
OrNullNum(x) == IF x = Undefined \/ x[1] = 0 THEN Null ELSE x
OrNullStr(x) == IF x = Undefined \/ x[1] = "" THEN Null ELSE x

\* String.prototype.trim on a name given as its sequence of characters
RECURSIVE TrimStart(_)
TrimStart(s) == IF s # <<>> /\ Head(s) = " " THEN TrimStart(Tail(s)) ELSE s
RECURSIVE TrimEnd(_)
TrimEnd(s) ==
  IF s # <<>> /\ s[Len(s)] = " " THEN TrimEnd(SubSeq(s, 1, Len(s) - 1)) ELSE s
Trim(s) == TrimEnd(TrimStart(s))

\* the rows a multi-row insert adds, as a bag
RowsBag(rows) ==
  [r \in {rows[i] : i \in DOMAIN rows} |->
     Cardinality({i \in DOMAIN rows : rows[i] = r})]

\* bag after a DELETE that leaves the rows in kept
KeepLinks(bag, kept) == [r \in kept |-> bag[r]]

\* ---------------------------------------------------------------- state
VARIABLES
  assets,                \* table assets: id -> row
  assetTags,             \* table asset_tags: a bag of (assetId, tagId) rows
  tags,                  \* table tags: id -> row
  personalAccessTokens,  \* table personal_access_tokens: id -> row
  storage,               \* the storage provider: the objects it holds
  nextAssetId, nextTagId, nextTokenId,   \* the next fresh uuid of each table
  now,                   \* the database clock (defaultNow)
  last,                  \* the last request and the response it got
  finalizing,            \* finalize requests a server is working on
  uploader,              \* the web client's UploadDropzone component
  captures,              \* the extension worker's handleCaptureMedia runs
  inflight,              \* PATCH and DELETE requests a server is working on
  popup                  \* the extension popup's list of candidates

vars == <<assets, assetTags, tags, personalAccessTokens, storage,
          nextAssetId, nextTagId, nextTokenId, now, last,
          finalizing, uploader, captures, inflight, popup>>

\* the processes around the tables: requests in flight and the two clients
procVars == <<finalizing, uploader, captures, inflight, popup>>

dbVars == <<assets, assetTags, tags, personalAccessTokens, storage,
            nextAssetId, nextTagId, nextTokenId, now>>

\* a request slot no finalize call occupies: pc is the call's position in its
\* handler; seen and order record the row its UPDATE found and which UPDATE of
\* the run it was.  A call that changed a row keeps its slot when answered.
IdleCall ==
  [pc |-> "idle", route |-> "", caller |-> NoUser, auth |-> Undefined,
   assetId |-> Undefined, width |-> Undefined, height |-> Undefined,
   durationSeconds |-> Undefined, sha256 |-> Undefined,
   sizeBytes |-> Undefined, notes |-> Undefined, tagIds |-> Undefined,
   seen |-> <<>>, order |-> 0]

\* a capture that was not requested yet: blob is whether the media download
\* gave bytes, put the outcome of the primary PUT
IdleCapture ==
  [pc |-> "idle", auth |-> Undefined, blob |-> FALSE, type |-> "image",
   tagIds |-> Undefined, assetId |-> Undefined, assetUpload |-> Null,
   previewUpload |-> Null, put |-> "none"]

\* a request slot no PATCH or DELETE occupies: pc is the request's position
\* in its handler, row the asset row its first statement returned
IdleRequest ==
  [pc |-> "idle", route |-> "", caller |-> NoUser, id |-> 0,
   tagIds |-> Undefined, row |-> <<>>, storageCalls |-> <<>>]

Init ==
  /\ assets = <<>>
  /\ assetTags = EmptyBag
  /\ tags = <<>>
  /\ personalAccessTokens = <<>>
  /\ storage = {}
  /\ nextAssetId = 1
  /\ nextTagId = 1
  /\ nextTokenId = 1
  /\ now = 1
  /\ last = [op |-> "none", caller |-> NoUser, auth |-> Undefined,
             id |-> Undefined, tagIds |-> <<>>, args |-> <<>>, status |-> 0,
             body |-> <<>>]
  /\ finalizing = [c \in 1 .. MaxCalls |-> IdleCall]
  /\ uploader = [files |-> <<>>, added |-> 0, isUploading |-> FALSE,
                 pendingFiles |-> <<>>, i |-> 0, pc |-> "idle",
                 assetId |-> Undefined, assetUpload |-> Null,
                 previewUpload |-> Null, previewData |-> FALSE,
                 completedIds |-> <<>>, notified |-> <<>>]
  /\ captures = [k \in 1 .. MaxCaptures |-> IdleCapture]
  /\ inflight = [c \in 1 .. MaxCalls |-> IdleRequest]
  /\ popup = [candidates |-> [k \in 1 .. MaxCaptures |->
                               [status |-> "idle", selected |-> FALSE]],
              toCapture |-> <<>>, awaiting |-> 0, inbox |-> {}]

\* a request (operation, authenticated caller, Authorization header, the id and
\* the tag ids it names, args: its other fields where a property reads them)
\* with the response it got (status, body)
ReplyAuth(op, caller, auth, id, tagIds, status, body) ==
  [op |-> op, caller |-> caller, auth |-> auth, id |-> id, tagIds |-> tagIds,
   args |-> <<>>, status |-> status, body |-> body]

\* the same for a cookie-session request (no Authorization header)
Reply(op, caller, id, tagIds, status, body) ==
  ReplyAuth(op, caller, Undefined, id, tagIds, status, body)

Error(op, caller, id, tagIds, status) ==
  /\ last' = Reply(op, caller, id, tagIds, status, <<>>)
  /\ UNCHANGED dbVars

\* f with the row of key k removed / set
Without(f, k) == [x \in DOMAIN f \ {k} |-> f[x]]
With(f, k, row) == [x \in DOMAIN f \cup {k} |-> IF x = k THEN row ELSE f[x]]

\* ---------------------------------------------------------------- queries
\* the same lookup with the owner condition dropped: WHERE assets.id = id
AnyAsset(user, id) == id # Undefined /\ id[1] \in DOMAIN assets

\* WHERE assets.id = id AND assets.owner_id = user
OwnedAsset(user, id) ==
  id # Undefined /\ id[1] \in DOMAIN assets /\ assets[id[1]].ownerId = user

\* a tags row as the API returns it
TagRow(t) ==
  [id |-> t, ownerId |-> tags[t].ownerId, name |-> tags[t].name,
   color |-> tags[t].color]

\* asset_tags INNER JOIN tags ON asset_tags.tag_id = tags.id
\* WHERE asset_tags.asset_id = a : one tag row per link row
TagsOfAsset(a) ==
  LET linked == {t \in DOMAIN tags :
                   [assetId |-> a, tagId |-> t] \in DOMAIN assetTags}
  IN [r \in {TagRow(t) : t \in linked} |->
        assetTags[[assetId |-> a, tagId |-> r.id]]]

\* generateAssetPath: prefix/owner/timestamp-random-filename; the timestamp and
\* the random suffix make the path unique, here the serial n
GenerateAssetPath(userId, filename, prefix, n) ==
  [prefix |-> prefix, userId |-> userId, unique |-> n, filename |-> filename]

\* durationSeconds?.toString() || null
DurationText(d) == IF d = Undefined THEN Null ELSE <<ToString(d[1])>>

\* ---------------------------------------------------------------- assets
\* an inserted row that names the primary object and no preview
NewAssetRowPrimaryOnly(ownerId, status, captureMethod, sourcePlatform, mediaUrl, filename, mimeType, sizeBytes) ==
  [ownerId |-> ownerId,
   createdAt |-> now,
   status |-> status,
   captureMethod |-> captureMethod,
   sourcePlatform |-> IF sourcePlatform = "" THEN "other" ELSE sourcePlatform,
   mediaUrl |-> OrNullStr(mediaUrl),
   originalFilename |-> filename,
   mimeType |-> mimeType,
   sizeBytes |-> OrNullNum(sizeBytes),
   width |-> Null,
   height |-> Null,
   durationSeconds |-> Null,
   sha256 |-> Null,
   storageBucket |-> <<ASSETS_BUCKET>>,
   storagePath |-> <<GenerateAssetPath(ownerId, <<filename>>, "",
                                       nextAssetId)>>,
   previewBucket |-> Null,
   previewPath |-> Null,
   notes |-> Null]

\* the row init-upload / extension init inserts
NewAssetRow(ownerId, status, captureMethod, sourcePlatform, mediaUrl, filename, mimeType, sizeBytes) ==
  [ownerId |-> ownerId,
   createdAt |-> now,
   status |-> status,
   captureMethod |-> captureMethod,
   sourcePlatform |-> IF sourcePlatform = "" THEN "other" ELSE sourcePlatform,
   mediaUrl |-> OrNullStr(mediaUrl),
   originalFilename |-> filename,
   mimeType |-> mimeType,
   sizeBytes |-> OrNullNum(sizeBytes),
   width |-> Null,
   height |-> Null,
   durationSeconds |-> Null,
   sha256 |-> Null,
   storageBucket |-> <<ASSETS_BUCKET>>,
   storagePath |-> <<GenerateAssetPath(ownerId, <<filename>>, "",
                                       nextAssetId)>>,
   previewBucket |-> <<PREVIEWS_BUCKET>>,
   previewPath |-> <<GenerateAssetPath(ownerId, <<"preview-", filename>>,
                                       "previews", nextAssetId)>>,
   notes |-> Null]

\* POST /api/assets/init-upload
InitUpload(user, filename, mimeType, sizeBytes, sourcePlatform, signAsset, signPreview) ==
  LET Op(status) == Error("init-upload", user, Undefined, <<>>, status)
      row == NewAssetRow(user, "uploading", "web_upload", sourcePlatform,
                         Undefined, filename, mimeType, sizeBytes)
  IN
  IF user = NoUser THEN Op(401)
  ELSE IF filename = "" \/ mimeType = "" THEN Op(400)
  ELSE
    /\ nextAssetId <= MaxAssets
    /\ assets' = With(assets, nextAssetId, row)
    /\ nextAssetId' = nextAssetId + 1
    /\ now' = now + 1
    /\ last' =
         IF signAsset /\ signPreview
         THEN Reply("init-upload", user, Undefined, <<>>, 200,
                    [assetId |-> nextAssetId,
                     assetUpload |-> row.storagePath,
                     previewUpload |-> row.previewPath])
         ELSE Reply("init-upload", user, Undefined, <<>>, 500, <<>>)
    /\ UNCHANGED <<assetTags, tags, personalAccessTokens, storage,
                   nextTagId, nextTokenId>>

\* a SET clause that keeps the column of every field the body omits
FinalizeSetKeepingOmitted(row, width, height, durationSeconds, sha256, sizeBytes, notes) ==
  [row EXCEPT !.status = "ready",
              !.width = IF width = Undefined THEN @ ELSE width,
              !.height = IF height = Undefined THEN @ ELSE height,
              !.durationSeconds =
                 IF durationSeconds = Undefined THEN @
                 ELSE DurationText(durationSeconds),
              !.sha256 = IF sha256 = Undefined THEN @ ELSE sha256,
              !.sizeBytes = IF sizeBytes = Undefined THEN @ ELSE sizeBytes,
              !.notes = IF notes = Undefined THEN @ ELSE notes]

\* the SET clause of finalize-upload, applied to a row
FinalizeSet(row, width, height, durationSeconds, sha256, sizeBytes, notes) ==
  [row EXCEPT !.status = "ready",
              !.width = OrNullNum(width),
              !.height = OrNullNum(height),
              !.durationSeconds = DurationText(durationSeconds),
              !.sha256 = OrNullStr(sha256),
              !.sizeBytes = OrNullNum(sizeBytes),
              !.notes = OrNullStr(notes)]

\* POST /api/assets/finalize-upload
FinalizeUpload(user, assetId, width, height, durationSeconds, sha256, sizeBytes, notes) ==
  LET Op(status) == Error("finalize-upload", user, assetId, <<>>, status)
  IN
  IF user = NoUser THEN Op(401)
  ELSE IF assetId = Undefined THEN Op(400)
  ELSE IF ~OwnedAsset(user, assetId) THEN Op(404)
  ELSE
    LET row == FinalizeSet(assets[assetId[1]], width, height,
                           durationSeconds, sha256, sizeBytes, notes)
    IN
    /\ assets' = With(assets, assetId[1], row)
    /\ last' = [Reply("finalize-upload", user, assetId, <<>>, 200,
                      [asset |-> row])
                  EXCEPT !.args = [width |-> width, height |-> height,
                                   durationSeconds |-> durationSeconds,
                                   sha256 |-> sha256, sizeBytes |-> sizeBytes,
                                   notes |-> notes]]
    /\ UNCHANGED <<assetTags, tags, personalAccessTokens, storage,
                   nextAssetId, nextTagId, nextTokenId, now>>

\* a PATCH that also puts the row back to 'uploading'
PatchSetResettingStatus(row, notes, sourcePlatform) ==
  [row EXCEPT !.notes = IF notes # Undefined THEN notes ELSE @,
              !.sourcePlatform =
                 IF sourcePlatform # "" THEN sourcePlatform ELSE @,
              !.status = "uploading"]

\* the SET clause of PATCH /api/assets/:id
PatchSet(row, notes, sourcePlatform) ==
  [row EXCEPT !.notes = IF notes # Undefined THEN notes ELSE @,
              !.sourcePlatform =
                 IF sourcePlatform # "" THEN sourcePlatform ELSE @]

\* the asset_tags rows PATCH / extension finalize insert for a tagIds array
LinkRows(assetId, ids) ==
  [i \in DOMAIN ids |-> [assetId |-> assetId, tagId |-> ids[i]]]

\* asset_tags after PATCH replaced the links of asset a by those of tagIds
ReplaceLinks(a, tagIds) ==
  KeepLinks(assetTags, {r \in DOMAIN assetTags : r.assetId # a})
    (+) RowsBag(LinkRows(a, tagIds))

\* PATCH /api/assets/:id ; tagIds is Undefined or <<the array>>
PatchAsset(user, id, notes, sourcePlatform, tagIds) ==
  LET named == IF tagIds = Undefined THEN <<>> ELSE tagIds[1]
      Op(status) == Error("patch-asset", user, <<id>>, named, status)
  IN
  IF user = NoUser THEN Op(401)
  ELSE IF ~OwnedAsset(user, <<id>>) THEN Op(404)
  ELSE
    LET row == PatchSet(assets[id], notes, sourcePlatform)
    IN
    /\ assets' = With(assets, id, row)
    /\ assetTags' = IF tagIds # Undefined
                    THEN ReplaceLinks(id, tagIds[1])
                    ELSE assetTags
    /\ last' = Reply("patch-asset", user, <<id>>, named, 200, [asset |-> row])
    /\ UNCHANGED <<tags, personalAccessTokens, storage,
                   nextAssetId, nextTagId, nextTokenId, now>>

\* the calls when one try block holds both removals: a failure of the first
\* skips the second
DeleteCallsOneTry(row, okAsset, okPreview) ==
  <<[bucket |-> row.storageBucket[1], path |-> row.storagePath[1],
     ok |-> okAsset]>>
  \o (IF okAsset /\ row.previewBucket # Null /\ row.previewPath # Null
      THEN <<[bucket |-> row.previewBucket[1], path |-> row.previewPath[1],
              ok |-> okPreview]>>
      ELSE <<>>)

\* the deleteFile calls DELETE /api/assets/:id makes, in order, each with its
\* outcome: the primary object, then the preview object if the row has one
DeleteCalls(row, okAsset, okPreview) ==
  <<[bucket |-> row.storageBucket[1], path |-> row.storagePath[1],
     ok |-> okAsset]>>
  \o (IF row.previewBucket # Null /\ row.previewPath # Null
      THEN <<[bucket |-> row.previewBucket[1], path |-> row.previewPath[1],
              ok |-> okPreview]>>
      ELSE <<>>)

\* DELETE /api/assets/:id ; okAsset, okPreview: whether the storage provider
\* carries out each removal or answers an error
DeleteAsset(user, id, okAsset, okPreview) ==
  LET Op(status) == Error("delete-asset", user, <<id>>, <<>>, status)
  IN
  IF user = NoUser THEN Op(401)
  ELSE IF ~OwnedAsset(user, <<id>>) THEN Op(404)
  ELSE
    LET calls == DeleteCalls(assets[id], okAsset, okPreview)
        removed == {<<calls[i].bucket, calls[i].path>> :
                      i \in {j \in DOMAIN calls : calls[j].ok}}
    IN
    /\ storage' = storage \ removed
    /\ assetTags' = KeepLinks(assetTags, {r \in DOMAIN assetTags : r.assetId # id})
    /\ assets' = Without(assets, id)
    /\ last' = Reply("delete-asset", user, <<id>>, <<>>, 200,
                     [success |-> TRUE, storageCalls |-> calls])
    /\ UNCHANGED <<tags, personalAccessTokens,
                   nextAssetId, nextTagId, nextTokenId, now>>

\* signing that gives no URL at all while any object pointed to is missing
SignedUrlAllOrNothing(bucket, path) ==
  IF /\ bucket # Null /\ path # Null
     /\ \A a \in DOMAIN assets :
          /\ <<assets[a].storageBucket[1], assets[a].storagePath[1]>> \in storage
          /\ <<assets[a].previewBucket[1], assets[a].previewPath[1]>> \in storage
  THEN <<[bucket |-> bucket[1], path |-> path[1]]>>
  ELSE Null

\* createSignedDownloadUrl: a URL for the object, or null when the provider
\* answers an error (the object is not there)
SignedUrl(bucket, path) ==
  IF bucket # Null /\ path # Null /\ <<bucket[1], path[1]>> \in storage
  THEN <<[bucket |-> bucket[1], path |-> path[1]]>>
  ELSE Null

\* GET /api/assets/:id
GetAsset(user, id) ==
  LET Op(status) == Error("get-asset", user, <<id>>, <<>>, status)
  IN
  IF user = NoUser THEN Op(401)
  ELSE IF ~OwnedAsset(user, <<id>>) THEN Op(404)
  ELSE
    /\ last' = Reply("get-asset", user, <<id>>, <<>>, 200,
                     [asset |-> assets[id],
                      assetUrl |-> SignedUrl(assets[id].storageBucket,
                                             assets[id].storagePath),
                      previewUrl |-> SignedUrl(assets[id].previewBucket,
                                               assets[id].previewPath),
                      tags |-> TagsOfAsset(id)])
    /\ UNCHANGED dbVars

\* the client's PUT of the bytes to a signed upload URL of asset a
PutObject(a, which) ==
  /\ a \in DOMAIN assets
  /\ storage' = storage \cup
       {IF which = "asset"
        THEN <<assets[a].storageBucket[1], assets[a].storagePath[1]>>
        ELSE <<assets[a].previewBucket[1], assets[a].previewPath[1]>>}
  /\ last' = Reply("put-object", assets[a].ownerId, <<a>>, <<>>, 200, <<>>)
  /\ UNCHANGED <<assets, assetTags, tags, personalAccessTokens,
                 nextAssetId, nextTagId, nextTokenId, now>>

\* ---------------------------------------------------------------- listing
\* searchParams.get('tags')?.split(',').filter(Boolean) || [] ; the parameter
\* is given as its comma-separated segments, <<>> an empty segment and <<t>>
\* the uuid t
ParseTagIds(segments) ==
  LET kept == SelectSeq(segments, LAMBDA x : x # <<>>)
  IN [i \in DOMAIN kept |-> kept[i][1]]

\* the same subquery with HAVING count(*) = tagIds.length
AssetsWithTagsCountingRows(tagIds) ==
  LET wanted == {tagIds[i] : i \in DOMAIN tagIds}
      Rows(a) == KeepLinks(assetTags,
                   {r \in DOMAIN assetTags : r.assetId = a /\ r.tagId \in wanted})
  IN {a \in {r.assetId : r \in {x \in DOMAIN assetTags : x.tagId \in wanted}} :
        BagCardinality(Rows(a)) = Len(tagIds)}

\* the asset ids of: SELECT asset_id FROM asset_tags WHERE tag_id IN tagIds
\* GROUP BY asset_id HAVING count(distinct tag_id) = tagIds.length
AssetsWithTags(tagIds) ==
  LET wanted == {tagIds[i] : i \in DOMAIN tagIds}
      Matched(a) == {r.tagId : r \in {x \in DOMAIN assetTags :
                                        x.assetId = a /\ x.tagId \in wanted}}
  IN {a \in {r.assetId : r \in {x \in DOMAIN assetTags : x.tagId \in wanted}} :
        Cardinality(Matched(a)) = Len(tagIds)}

\* the characters of the strings that requests give and rows store as file
\* names, notes, mime types and search texts
Chars(s) ==
  CASE s = "" -> <<>>
    [] s = "a" -> <<"a">>
    [] s = "b" -> <<"b">>
    [] s = "AB" -> <<"A", "B">>
    [] s = "_" -> <<"_">>
    [] s = "%" -> <<"%">>
    [] s = "Ab" -> <<"A", "b">>
    [] s = "ad.png" -> <<"a", "d", ".", "p", "n", "g">>
    [] s = "image/%" -> <<"i", "m", "a", "g", "e", "/", "%">>
    [] s = "video/%" -> <<"v", "i", "d", "e", "o", "/", "%">>
    [] s = "image/png" -> <<"i", "m", "a", "g", "e", "/", "p", "n", "g">>
    [] s = "video/mp4" -> <<"v", "i", "d", "e", "o", "/", "m", "p", "4">>
    [] s = "text/plain" ->
         <<"t", "e", "x", "t", "/", "p", "l", "a", "i", "n">>

\* the lower-case form of a character (of the letters that occur in upper case)
Lower(c) == CASE c = "A" -> "a" [] c = "B" -> "b" [] OTHER -> c

\* PostgreSQL's text ILIKE pattern: % matches any run of characters, _ any one
\* character, every other character itself without regard to case
RECURSIVE ILike(_, _)
ILike(text, pattern) ==
  IF pattern = <<>> THEN text = <<>>
  ELSE IF Head(pattern) = "%"
  THEN \/ ILike(text, Tail(pattern))
       \/ text # <<>> /\ ILike(Tail(text), pattern)
  ELSE /\ text # <<>>
       /\ Head(pattern) = "_" \/ Lower(Head(pattern)) = Lower(Head(text))
       /\ ILike(Tail(text), Tail(pattern))

\* new Date('YYYY-MM-DD'): the instant the day d begins (two instants a day)
DateOf(d) == 2 * d

\* parseQueryParams: the parsed query; '' and <<>> stand for a parameter that
\* is not given
QueryParams(page, limit, search, source, type, segments, from, to) ==
  [page |-> page, limit |-> limit, search |-> search,
   sourcePlatform |-> source, mimeTypeFilter |-> type,
   tagIds |-> ParseTagIds(segments), fromDate |-> from, toDate |-> to]

\* buildWhereConditions: the caller's ready assets that pass every filter given
WhereConditions(user, params, a) ==
  /\ assets[a].ownerId = user
  /\ assets[a].status = "ready"
  /\ params.search # "" =>
       \/ ILike(Chars(assets[a].originalFilename),
                <<"%">> \o Chars(params.search) \o <<"%">>)
       \/ /\ assets[a].notes # Null
          /\ ILike(Chars(assets[a].notes[1]),
                   <<"%">> \o Chars(params.search) \o <<"%">>)
  /\ params.sourcePlatform # "" =>
       assets[a].sourcePlatform = params.sourcePlatform
  /\ params.mimeTypeFilter = "image" =>
       ILike(Chars(assets[a].mimeType), Chars("image/%"))
  /\ params.mimeTypeFilter = "video" =>
       ILike(Chars(assets[a].mimeType), Chars("video/%"))
  /\ params.fromDate # <<>> =>
       assets[a].createdAt >= DateOf(params.fromDate[1])
  /\ params.toDate # <<>> =>
       assets[a].createdAt <= DateOf(params.toDate[1])

\* the ids in s ordered by createdAt, newest first
RECURSIVE NewestFirst(_)
NewestFirst(s) ==
  IF s = {} THEN <<>>
  ELSE LET a == CHOOSE x \in s :
                  \A y \in s : assets[y].createdAt <= assets[x].createdAt
       IN <<a>> \o NewestFirst(s \ {a})

\* LIMIT limit OFFSET offset of a result list
Page(list, limit, offset) ==
  SubSeq(list, offset + 1,
         IF offset + limit < Len(list) THEN offset + limit ELSE Len(list))

\* GET /api/assets with the parsed query params
ListAssetsBy(user, params) ==
  LET tagIds == params.tagIds
      limit == params.limit
      offset == (params.page - 1) * limit
      matching == {a \in DOMAIN assets :
                     /\ WhereConditions(user, params, a)
                     /\ Len(tagIds) > 0 => a \in AssetsWithTags(tagIds)}
      results == Page(NewestFirst(matching), limit, offset)
      totalCount == Cardinality({a \in DOMAIN assets :
                                   WhereConditions(user, params, a)})
      totalPages == (totalCount + limit - 1) \div limit
  IN
  IF user = NoUser
  THEN /\ last' = [Reply("list-assets", user, Undefined, tagIds, 401, <<>>)
                     EXCEPT !.args = params]
       /\ UNCHANGED dbVars
  ELSE
    /\ last' = [Reply("list-assets", user, Undefined, tagIds, 200,
         [assets |-> [i \in DOMAIN results |->
                        [id |-> results[i],
                         asset |-> assets[results[i]],
                         previewUrl |-> SignedUrl(
                                          assets[results[i]].previewBucket,
                                          assets[results[i]].previewPath),
                         tags |-> TagsOfAsset(results[i])]],
          pagination |-> [page |-> params.page, limit |-> limit,
                          totalCount |-> totalCount,
                          totalPages |-> totalPages,
                          hasMore |-> params.page < totalPages]])
                  EXCEPT !.args = params]
    /\ UNCHANGED dbVars

\* GET /api/assets?tags=..&page=..&limit=.. , no other filter given
ListAssets(user, segments, page, limit) ==
  ListAssetsBy(user, QueryParams(page, limit, "", "", "", segments, <<>>, <<>>))

\* ---------------------------------------------------------------- tags
\* the index declared without uniqueness: every table passes
PlainIdx(table) == TRUE

\* the unique index tags_owner_name_idx on (owner_id, name)
TagsOwnerNameIdx(table) ==
  \A t1, t2 \in DOMAIN table :
     (table[t1].ownerId = table[t2].ownerId /\ table[t1].name = table[t2].name)
       => t1 = t2

\* WHERE tags.id = id AND tags.owner_id = user
OwnedTag(user, id) == id \in DOMAIN tags /\ tags[id].ownerId = user

\* GET /api/tags : the caller's tags (ordered by name; given as a set of rows)
GetTags(user) ==
  IF user = NoUser THEN Error("get-tags", user, Undefined, <<>>, 401)
  ELSE
    /\ last' = Reply("get-tags", user, Undefined, <<>>, 200,
         [tags |-> {TagRow(t) : t \in {x \in DOMAIN tags :
                                         tags[x].ownerId = user}}])
    /\ UNCHANGED dbVars

\* POST /api/tags ; name is the sequence of its characters, color "" if absent
CreateTag(user, name, color) ==
  LET Answer(status, body) ==
        last' = [Reply("create-tag", user, Undefined, <<>>, status, body)
                   EXCEPT !.args = [name |-> name]]
      row == [ownerId |-> user, name |-> Trim(name),
              color |-> IF color = "" THEN DEFAULT_COLOR ELSE color]
  IN
  IF user = NoUser THEN Answer(401, <<>>) /\ UNCHANGED dbVars
  ELSE IF name = <<>> THEN Answer(400, <<>>) /\ UNCHANGED dbVars
  ELSE IF ~TagsOwnerNameIdx(With(tags, nextTagId, row))
  THEN Answer(500, <<>>) /\ UNCHANGED dbVars
  ELSE
    /\ nextTagId <= MaxTags
    /\ tags' = With(tags, nextTagId, row)
    /\ nextTagId' = nextTagId + 1
    /\ Answer(200, [tag |-> [id |-> nextTagId] @@ row])
    /\ UNCHANGED <<assets, assetTags, personalAccessTokens, storage,
                   nextAssetId, nextTokenId, now>>

\* PATCH /api/tags/:id
PatchTag(user, id, name, color) ==
  LET Answer(status, body) ==
        last' = [Reply("patch-tag", user, <<id>>, <<>>, status, body)
                   EXCEPT !.args = [name |-> name]]
  IN
  IF user = NoUser THEN Answer(401, <<>>) /\ UNCHANGED dbVars
  ELSE IF name = <<>> /\ color = "" THEN Answer(400, <<>>) /\ UNCHANGED dbVars
  ELSE IF ~OwnedTag(user, id) THEN Answer(404, <<>>) /\ UNCHANGED dbVars
  ELSE
    LET row == [tags[id] EXCEPT
                  !.name = IF name # <<>> THEN Trim(name) ELSE @,
                  !.color = IF color # "" THEN color ELSE @]
    IN
    IF ~TagsOwnerNameIdx(With(tags, id, row))
    THEN Answer(500, <<>>) /\ UNCHANGED dbVars
    ELSE /\ tags' = With(tags, id, row)
         /\ Answer(200, [tag |-> [id |-> id] @@ row])
         /\ UNCHANGED <<assets, assetTags, personalAccessTokens, storage,
                        nextAssetId, nextTagId, nextTokenId, now>>

\* the tag's join rows left in place
LinksKept(id) == assetTags

\* asset_tags after DELETE FROM asset_tags WHERE tag_id = id
UnlinkTag(id) == KeepLinks(assetTags, {r \in DOMAIN assetTags : r.tagId # id})

\* DELETE /api/tags/:id
DeleteTag(user, id) ==
  LET Op(status) == Error("delete-tag", user, <<id>>, <<>>, status)
  IN
  IF user = NoUser THEN Op(401)
  ELSE IF ~OwnedTag(user, id) THEN Op(404)
  ELSE
    /\ assetTags' = UnlinkTag(id)
    /\ tags' = Without(tags, id)
    /\ last' = Reply("delete-tag", user, <<id>>, <<>>, 200,
                     [success |-> TRUE])
    /\ UNCHANGED <<assets, personalAccessTokens, storage,
                   nextAssetId, nextTagId, nextTokenId, now>>

\* ---------------------------------------------------------------- tokens
\* generatePAT: 'adstash_' and 40 random characters, of which the first 8 go
\* into the display prefix; the n-th token generated
GeneratePAT(n) == [head |-> n, rest |-> n]

\* hashPAT: the SHA-256 digest of the token, in hex (collision free)
HashPAT(token) == <<"sha256", token.head, token.rest>>

\* getPATPrefix: the first 16 characters, 'adstash_' and 8 more
GetPATPrefix(token) == <<"adstash_", token.head>>

\* the token strings a request may present
RawTokens == [head : 0 .. MaxTokens, rest : 0 .. MaxTokens]

\* the Authorization headers a request may carry: none, or a scheme and a token
AuthHeaders ==
  {Undefined} \cup
  {<<[scheme |-> s, token |-> t]>> : s \in {"Bearer ", "Basic "}, t \in RawTokens}

\* a SELECT that looks the token up by its display prefix
MatchingPATsByPrefix(authHeader) ==
  IF authHeader = Undefined \/ authHeader[1].scheme # "Bearer " THEN {}
  ELSE {k \in DOMAIN personalAccessTokens :
          /\ personalAccessTokens[k].tokenPrefix
               = GetPATPrefix(authHeader[1].token)
          /\ personalAccessTokens[k].revokedAt = Null}

\* verifyPAT's SELECT: the rows whose hash is the presented token's and that
\* are not revoked
MatchingPATs(authHeader) ==
  IF authHeader = Undefined \/ authHeader[1].scheme # "Bearer " THEN {}
  ELSE {k \in DOMAIN personalAccessTokens :
          /\ personalAccessTokens[k].tokenHash = HashPAT(authHeader[1].token)
          /\ personalAccessTokens[k].revokedAt = Null}

\* verifyPAT: the owner of the first matching row, or no principal
VerifyPAT(authHeader) ==
  IF MatchingPATs(authHeader) = {} THEN NoUser
  ELSE personalAccessTokens[CHOOSE k \in MatchingPATs(authHeader) : TRUE].ownerId

\* a select of the whole row, token_hash included
TokenRow(k) ==
  [id |-> k, name |-> personalAccessTokens[k].name,
   tokenHash |-> personalAccessTokens[k].tokenHash,
   tokenPrefix |-> personalAccessTokens[k].tokenPrefix,
   lastUsedAt |-> personalAccessTokens[k].lastUsedAt]

\* the fields GET/POST /api/tokens select from a row
TokenInfo(k) ==
  [id |-> k, name |-> personalAccessTokens[k].name,
   tokenPrefix |-> personalAccessTokens[k].tokenPrefix,
   lastUsedAt |-> personalAccessTokens[k].lastUsedAt]

\* GET /api/tokens
GetTokens(user) ==
  IF user = NoUser THEN Error("get-tokens", user, Undefined, <<>>, 401)
  ELSE
    /\ last' = Reply("get-tokens", user, Undefined, <<>>, 200,
         [tokens |-> {TokenInfo(k) : k \in {x \in DOMAIN personalAccessTokens :
                          personalAccessTokens[x].ownerId = user}}])
    /\ UNCHANGED dbVars

\* POST /api/tokens
CreateToken(user, name) ==
  LET Op(status) == Error("create-token", user, Undefined, <<>>, status)
      token == GeneratePAT(nextTokenId)
      row == [ownerId |-> user, name |-> Trim(name),
              tokenHash |-> HashPAT(token),
              tokenPrefix |-> GetPATPrefix(token),
              lastUsedAt |-> Null, revokedAt |-> Null]
  IN
  IF user = NoUser THEN Op(401)
  ELSE IF name = <<>> THEN Op(400)
  ELSE
    /\ nextTokenId <= MaxTokens
    /\ personalAccessTokens' = With(personalAccessTokens, nextTokenId, row)
    /\ nextTokenId' = nextTokenId + 1
    /\ last' = Reply("create-token", user, Undefined, <<>>, 200,
         [token |-> token,
          tokenInfo |-> [id |-> nextTokenId, name |-> row.name,
                         tokenPrefix |-> row.tokenPrefix,
                         lastUsedAt |-> row.lastUsedAt]])
    /\ UNCHANGED <<assets, assetTags, tags, storage,
                   nextAssetId, nextTagId, now>>

\* personal_access_tokens after
\* DELETE ... WHERE id = id AND owner_id = user
RevokeToken(user, id) ==
  IF id \in DOMAIN personalAccessTokens
     /\ personalAccessTokens[id].ownerId = user
  THEN Without(personalAccessTokens, id)
  ELSE personalAccessTokens

\* DELETE /api/tokens/:id
DeleteToken(user, id) ==
  IF user = NoUser THEN Error("delete-token", user, <<id>>, <<>>, 401)
  ELSE
    /\ personalAccessTokens' = RevokeToken(user, id)
    /\ last' = Reply("delete-token", user, <<id>>, <<>>, 200,
                     [success |-> TRUE])
    /\ UNCHANGED <<assets, assetTags, tags, storage,
                   nextAssetId, nextTagId, nextTokenId, now>>

\* ---------------------------------------------------------------- extension
\* GET /api/extension/verify
ExtVerify(authHeader) ==
  LET ownerId == VerifyPAT(authHeader)
  IN
  IF ownerId = NoUser
  THEN /\ last' = ReplyAuth("ext-verify", ownerId, authHeader, Undefined,
                            <<>>, 401, <<>>)
       /\ UNCHANGED dbVars
  ELSE
    /\ last' = ReplyAuth("ext-verify", ownerId, authHeader, Undefined, <<>>,
                         200, [valid |-> TRUE, ownerId |-> ownerId])
    /\ UNCHANGED dbVars

\* an UPDATE of lastUsedAt without its WHERE clause: every row is set
TouchAllPATs(authHeader) ==
  IF MatchingPATs(authHeader) = {} THEN personalAccessTokens
  ELSE [k \in DOMAIN personalAccessTokens |->
          [personalAccessTokens[k] EXCEPT !.lastUsedAt = <<now>>]]

\* personal_access_tokens after the init route's verifyPAT: lastUsedAt of the
\* matched row is set
TouchPAT(authHeader) ==
  IF MatchingPATs(authHeader) = {} THEN personalAccessTokens
  ELSE LET k == CHOOSE x \in MatchingPATs(authHeader) : TRUE
       IN [personalAccessTokens EXCEPT ![k].lastUsedAt = <<now>>]

\* an init that marks every capture as still uploading
AlwaysUploading(hasBlob) == "uploading"

\* hasBlob ? 'uploading' : 'ready' ; hasBlob is absent, <<FALSE>> or <<TRUE>>
ExtInitStatus(hasBlob) ==
  IF hasBlob # Undefined /\ hasBlob[1] THEN "uploading" ELSE "ready"

\* POST /api/extension/assets/init
ExtInit(authHeader, filename, mimeType, sizeBytes, sourcePlatform, mediaUrl, hasBlob, signAsset, signPreview) ==
  LET ownerId == VerifyPAT(authHeader)
      row == NewAssetRow(ownerId, ExtInitStatus(hasBlob),
                         "extension_capture", sourcePlatform, mediaUrl,
                         filename, mimeType, sizeBytes)
      Answer(status, body) ==
        last' = [ReplyAuth("ext-init", ownerId, authHeader, Undefined, <<>>,
                           status, body)
                   EXCEPT !.args = [filename |-> filename,
                                    mimeType |-> mimeType,
                                    mediaUrl |-> mediaUrl,
                                    hasBlob |-> hasBlob]]
  IN
  IF ownerId = NoUser
  THEN Answer(401, <<>>) /\ UNCHANGED dbVars
  ELSE
    /\ personalAccessTokens' = TouchPAT(authHeader)
    /\ IF filename = "" \/ mimeType = ""
       THEN /\ Answer(400, <<>>)
            /\ UNCHANGED <<assets, nextAssetId, now>>
       ELSE /\ nextAssetId <= MaxAssets
            /\ assets' = With(assets, nextAssetId, row)
            /\ nextAssetId' = nextAssetId + 1
            /\ now' = now + 1
            /\ IF ~(hasBlob # Undefined /\ hasBlob[1])
               THEN Answer(200, [assetId |-> nextAssetId,
                                 assetUpload |-> Null,
                                 previewUpload |-> Null])
               ELSE IF signAsset /\ signPreview
               THEN Answer(200, [assetId |-> nextAssetId,
                                 assetUpload |-> row.storagePath,
                                 previewUpload |-> row.previewPath])
               ELSE Answer(500, <<>>)
    /\ UNCHANGED <<assetTags, tags, storage, nextTagId, nextTokenId>>

\* the SET clause of the extension's finalize
ExtFinalizeSet(row, width, height, durationSeconds, sha256) ==
  [row EXCEPT !.status = "ready",
              !.width = OrNullNum(width),
              !.height = OrNullNum(height),
              !.durationSeconds = DurationText(durationSeconds),
              !.sha256 = OrNullStr(sha256)]

\* POST /api/extension/assets/finalize ; tagIds is Undefined or <<the array>>
ExtFinalize(authHeader, assetId, width, height, durationSeconds, sha256, tagIds) ==
  LET ownerId == VerifyPAT(authHeader)
      named == IF tagIds = Undefined THEN <<>> ELSE tagIds[1]
      Op(status) ==
        /\ last' = ReplyAuth("ext-finalize", ownerId, authHeader, assetId,
                             named, status, <<>>)
        /\ UNCHANGED dbVars
  IN
  IF ownerId = NoUser THEN Op(401)
  ELSE IF assetId = Undefined THEN Op(400)
  ELSE IF ~OwnedAsset(ownerId, assetId) THEN Op(404)
  ELSE
    LET row == ExtFinalizeSet(assets[assetId[1]], width, height,
                              durationSeconds, sha256)
        links == assetTags (+) RowsBag(LinkRows(assetId[1], named))
    IN
    /\ \A r \in DOMAIN links : links[r] <= MaxLinkCopies
    /\ assets' = With(assets, assetId[1], row)
    /\ assetTags' = links
    /\ last' = [ReplyAuth("ext-finalize", ownerId, authHeader, assetId,
                          named, 200, [asset |-> row])
                  EXCEPT !.args = [width |-> width, height |-> height,
                                   durationSeconds |-> durationSeconds,
                                   sha256 |-> sha256]]
    /\ UNCHANGED <<tags, personalAccessTokens, storage,
                   nextAssetId, nextTagId, nextTokenId, now>>

\* ---------------------------------------------------------------- inputs
Filenames == {"", "ad.png"}
MimeTypes == {"", "image/png"}
\* width and height as a client reports them: absent, 0 (no picture track), or
\* the picture's size
Dimensions == {<<Undefined, Undefined>>, <<<<0>>, <<0>>>>, <<<<800>>, <<600>>>>}
NotesInputs == {Undefined, <<"seen on feed">>}
AssetIdInputs == {Undefined} \cup {<<n>> : n \in Named(nextAssetId)}

TagIdsInputs == {Undefined} \cup {<<<<t>>>> : t \in Named(nextTagId)}
\* no header, or a bearer header with a generated token, issued or not yet
IssuedHeaders ==
  {Undefined} \cup
  {<<[scheme |-> "Bearer ", token |-> GeneratePAT(n)]>> : n \in 0 .. MaxTokens}

\* ---------------------------------------------------------------- all routes
\* rows inserted so far, over the three id-bearing tables
RowsCreated == (nextAssetId - 1) + (nextTagId - 1) + (nextTokenId - 1)

\* Every route handler, called by either owner or by nobody, naming any id
\* handed out so far.
Next ==
  \/ \E user \in Sessions :
       /\ RowsCreated < MaxRows
       /\ InitUpload(user, "ad.png", "image/png", Undefined, "", TRUE, TRUE)
       /\ UNCHANGED procVars
  \/ \E user \in Sessions, assetId \in AssetIdInputs :
       /\ FinalizeUpload(user, assetId, <<800>>, <<600>>, Undefined, Undefined,
                         Undefined, Undefined)
       /\ UNCHANGED procVars
  \/ \E user \in Sessions, id \in Named(nextAssetId), tagIds \in TagIdsInputs :
       /\ PatchAsset(user, id, Undefined, "", tagIds)
       /\ UNCHANGED procVars
  \/ \E user \in Sessions, id \in Named(nextAssetId) :
       /\ DeleteAsset(user, id, TRUE, TRUE)
       /\ UNCHANGED procVars
  \/ \E user \in Sessions :
       /\ RowsCreated < MaxRows
       /\ CreateTag(user, <<"a">>, "")
       /\ UNCHANGED procVars
  \/ \E user \in Sessions, id \in Named(nextTagId) :
       /\ PatchTag(user, id, <<"b">>, "")
       /\ UNCHANGED procVars
  \/ \E user \in Sessions, id \in Named(nextTagId) :
       /\ DeleteTag(user, id)
       /\ UNCHANGED procVars
  \/ \E user \in Sessions, id \in Named(nextAssetId) :
       /\ GetAsset(user, id)
       /\ UNCHANGED procVars
  \/ \E user \in Sessions :
       /\ ListAssets(user, <<>>, 1, MaxAssets)
       /\ UNCHANGED procVars
  \/ \E user \in Sessions :
       /\ GetTags(user)
       /\ UNCHANGED procVars
  \/ \E user \in Sessions :
       /\ GetTokens(user)
       /\ UNCHANGED procVars
  \/ \E authHeader \in IssuedHeaders :
       /\ ExtVerify(authHeader)
       /\ UNCHANGED procVars
  \/ \E user \in Sessions :
       /\ RowsCreated < MaxRows
       /\ CreateToken(user, <<"a">>)
       /\ UNCHANGED procVars
  \/ \E user \in Sessions, id \in Named(nextTokenId) :
       /\ DeleteToken(user, id)
       /\ UNCHANGED procVars
  \/ \E authHeader \in IssuedHeaders, hasBlob \in BOOLEAN :
       /\ RowsCreated < MaxRows
       /\ ExtInit(authHeader, "ad.png", "image/png", Undefined, "", Undefined,
                  <<hasBlob>>, TRUE, TRUE)
       /\ UNCHANGED procVars
  \/ \E authHeader \in IssuedHeaders, assetId \in AssetIdInputs,
        tagIds \in TagIdsInputs :
       /\ ExtFinalize(authHeader, assetId, <<800>>, <<600>>, Undefined, Undefined,
                      tagIds)
       /\ UNCHANGED procVars

Spec == Init /\ [][Next]_vars

\* ---------------------------------------------------------------- owners
\* what owner o holds: the asset rows, the links of those assets, the tag rows
\* and the token rows
AssetsOf(o) == {a \in DOMAIN assets : assets[a].ownerId = o}
TagsOf(o) == {t \in DOMAIN tags : tags[t].ownerId = o}
TokensOf(o) ==
  {k \in DOMAIN personalAccessTokens : personalAccessTokens[k].ownerId = o}
RowsOf(o) ==
  [assets |-> [a \in AssetsOf(o) |-> assets[a]],
   links |-> KeepLinks(assetTags, {r \in DOMAIN assetTags : r.assetId \in AssetsOf(o)}),
   tags |-> [t \in TagsOf(o) |-> tags[t]],
   tokens |-> [k \in TokensOf(o) |-> personalAccessTokens[k]]]

AssetWrites == {"patch-asset", "delete-asset", "finalize-upload", "ext-finalize"}
TagWrites == {"patch-tag", "delete-tag"}
TokenWrites == {"delete-token"}

\* request r names the id of an asset, a tag or a token that owner o holds
NamesRowOf(r, o) ==
  \/ /\ r.op \in AssetWrites
     /\ \/ r.id # Undefined /\ r.id[1] \in AssetsOf(o)
        \/ \E i \in DOMAIN r.tagIds : r.tagIds[i] \in TagsOf(o)
  \/ r.op \in TagWrites /\ r.id[1] \in TagsOf(o)
  \/ r.op \in TokenWrites /\ r.id[1] \in TokensOf(o)

\* C1: a write authenticated as one owner that names the id of an asset, tag
\* or token of another owner leaves everything that other owner holds (asset
\* rows, the links of those assets, tag rows, token rows) as it was.
NoCrossOwnerMutation ==
  [][\A o \in Users :
       (last'.caller \in Users \ {o} /\ NamesRowOf(last', o))
         => RowsOf(o)' = RowsOf(o)]_vars

\* C1 witness: an owner asked to delete another owner's asset that has a tag
\* link, and was refused
CrossOwnerDeleteRefused ==
  /\ last.op = "delete-asset"
  /\ last.caller \in Users
  /\ last.id[1] \in DOMAIN assets
  /\ assets[last.id[1]].ownerId # last.caller
  /\ \E r \in DOMAIN assetTags : r.assetId = last.id[1]
  /\ last.status = 404

\* the tag rows a read response carries in the tag lists of its assets
TagsShown(r) ==
  IF r.op = "get-asset" THEN DOMAIN r.body.tags
  ELSE IF r.op = "list-assets"
  THEN UNION {DOMAIN r.body.assets[i].tags : i \in DOMAIN r.body.assets}
  ELSE IF r.op = "get-tags" THEN r.body.tags
  ELSE {}

\* the asset rows a read response carries
AssetsShown(r) ==
  IF r.op = "get-asset" THEN {r.body.asset}
  ELSE IF r.op = "list-assets"
  THEN {r.body.assets[i].asset : i \in DOMAIN r.body.assets}
  ELSE {}

\* the ids of the token rows a read response carries
TokensShown(r) ==
  IF r.op = "get-tokens" THEN {t.id : t \in r.body.tokens} ELSE {}

Reads == {"get-asset", "list-assets", "get-tags", "get-tokens"}

\* C2: no response to a read authenticated as one owner carries an asset, a
\* tag or a token of another owner; in particular no tag list of an asset
\* carries another owner's tag.
NoCrossOwnerRead ==
  (last.op \in Reads /\ last.status = 200) =>
    /\ \A a \in AssetsShown(last) : a.ownerId = last.caller
    /\ \A t \in TagsShown(last) : t.ownerId = last.caller
    /\ \A k \in TokensShown(last) :
         personalAccessTokens[k].ownerId = last.caller

\* ---------------------------------------------------------------- lifecycle
\* assetStatusEnum
AssetStatus == {"draft", "uploading", "ready", "failed"}
Finalizes == {"finalize-upload", "ext-finalize"}

\* C10: every asset's status is one of the enum's; the only change of status
\* any operation makes to an existing asset is a finalize of that asset
\* setting 'ready'; an asset that is 'ready' stays 'ready' as long as it
\* exists, whatever is called.
StatusLifecycle ==
  /\ [](\A a \in DOMAIN assets : assets[a].status \in AssetStatus)
  /\ [][\A a \in DOMAIN assets \cap DOMAIN assets' :
          /\ assets'[a].status # assets[a].status =>
               /\ assets'[a].status = "ready"
               /\ last'.op \in Finalizes
               /\ last'.id = <<a>>
               /\ last'.status = 200
          /\ assets[a].status = "ready" => assets'[a].status = "ready"]_vars

\* C10 witness: a PATCH has succeeded on an asset that is 'ready'
ReadyAssetPatched ==
  /\ last.op = "patch-asset"
  /\ last.status = 200
  /\ last.id[1] \in DOMAIN assets
  /\ assets[last.id[1]].status = "ready"

\* ---------------------------------------------------------------- upload
\* The web upload handshake: init with any body, finalize with any reported
\* dimensions, read back.
UploadNext ==
  \/ \E user \in Sessions, filename \in Filenames, mimeType \in MimeTypes,
        refused \in SUBSET {"asset", "preview"} :
       /\ InitUpload(user, filename, mimeType, Undefined, "",
                     "asset" \notin refused, "preview" \notin refused)
       /\ UNCHANGED procVars
  \/ \E user \in Sessions, assetId \in AssetIdInputs, d \in Dimensions :
       /\ FinalizeUpload(user, assetId, d[1], d[2], Undefined, Undefined,
                         Undefined, Undefined)
       /\ UNCHANGED procVars
  \/ \E user \in Sessions, id \in Named(nextAssetId) :
       /\ GetAsset(user, id)
       /\ UNCHANGED procVars

UploadSpec == Init /\ [][UploadNext]_vars

\* C9: an init-upload with filename and mimeType by an authenticated user adds
\* exactly one asset row, owned by the caller, in status 'uploading', and its
\* answer carries that row's id and two signed-upload objects; a finalize by
\* the owner with that id and a width and height leaves the row 'ready' with
\* exactly the width and height given.
InitThenFinalize ==
  [][/\ (last'.op = "init-upload" /\ last'.status \notin {400, 401}) =>
          /\ DOMAIN assets' = DOMAIN assets \cup {nextAssetId}
          /\ nextAssetId \notin DOMAIN assets
          /\ \A a \in DOMAIN assets : assets'[a] = assets[a]
          /\ assets'[nextAssetId].ownerId = last'.caller
          /\ assets'[nextAssetId].status = "uploading"
          /\ last'.status = 200 =>
               /\ last'.body.assetId = nextAssetId
               /\ last'.body.assetUpload # Null
               /\ last'.body.previewUpload # Null
     /\ (/\ last'.op = "finalize-upload"
         /\ last'.caller \in Users
         /\ OwnedAsset(last'.caller, last'.id)) =>
          /\ last'.status = 200
          /\ assets'[last'.id[1]].status = "ready"
          /\ last'.args.width # Undefined =>
               assets'[last'.id[1]].width = last'.args.width
          /\ last'.args.height # Undefined =>
               assets'[last'.id[1]].height = last'.args.height]_vars

\* ---------------------------------------------------------------- delete
\* An asset's end: init, the client's PUTs, tag links, DELETE with a storage
\* provider that may refuse either removal.
DeleteNext ==
  \/ \E user \in Sessions :
       /\ InitUpload(user, "ad.png", "image/png", Undefined, "", TRUE, TRUE)
       /\ UNCHANGED procVars
  \/ \E a \in DOMAIN assets, which \in {"asset", "preview"} :
       /\ PutObject(a, which)
       /\ UNCHANGED procVars
  \/ \E user \in Sessions, id \in Named(nextAssetId), tagIds \in TagIdsInputs :
       /\ PatchAsset(user, id, Undefined, "", tagIds)
       /\ UNCHANGED procVars
  \/ \E user \in Sessions, id \in Named(nextAssetId),
        okAsset \in BOOLEAN, okPreview \in BOOLEAN :
       /\ DeleteAsset(user, id, okAsset, okPreview)
       /\ UNCHANGED procVars

DeleteSpec == Init /\ [][DeleteNext]_vars

\* C8: the owner's DELETE of an asset calls deleteFile for the primary object
\* and then for the preview object whatever the first call's outcome, removes
\* every link of the asset and the asset row whatever the outcomes, leaves
\* the other rows and links alone, and answers success.
DeleteAssetBestEffort ==
  [][(/\ last'.op = "delete-asset"
      /\ last'.caller \in Users
      /\ OwnedAsset(last'.caller, last'.id)) =>
       LET a == last'.id[1]
           calls == last'.body.storageCalls
       IN /\ last'.status = 200
          /\ Len(calls) = 2
          /\ calls[1].bucket = assets[a].storageBucket[1]
          /\ calls[1].path = assets[a].storagePath[1]
          /\ calls[2].bucket = assets[a].previewBucket[1]
          /\ calls[2].path = assets[a].previewPath[1]
          /\ assets' = Without(assets, a)
          /\ assetTags' = KeepLinks(assetTags, {r \in DOMAIN assetTags : r.assetId # a})
          /\ \A r \in DOMAIN assetTags' : r.assetId # a]_vars

\* C8 witness: a DELETE answered success although the removal of the primary
\* object failed: the object is still stored, the preview removal was tried
\* too, and the row is gone
DeletedDespiteStorageFailure ==
  /\ last.op = "delete-asset"
  /\ last.status = 200
  /\ ~last.body.storageCalls[1].ok
  /\ <<last.body.storageCalls[1].bucket, last.body.storageCalls[1].path>>
       \in storage
  /\ Len(last.body.storageCalls) = 2
  /\ last.id[1] \notin DOMAIN assets

\* ---------------------------------------------------------------- tags
NameChars == {" ", "a"}
\* the names a request may give: up to MaxNameLen characters, <<>> for none
Names == UNION {[1 .. n -> NameChars] : n \in 0 .. MaxNameLen}
TagIdLists == UNION {[1 .. n -> Named(nextTagId)] : n \in 0 .. MaxTagIds}

\* The tag routes: create, rename, recolour, delete, list.
TagNext ==
  \/ \E user \in Sessions, name \in Names :
       /\ CreateTag(user, name, "")
       /\ UNCHANGED procVars
  \/ \E user \in Sessions, id \in Named(nextTagId), name \in Names,
        color \in {"", "#ff0000"} :
       /\ PatchTag(user, id, name, color)
       /\ UNCHANGED procVars
  \/ \E user \in Sessions, id \in Named(nextTagId) :
       /\ DeleteTag(user, id)
       /\ UNCHANGED procVars
  \/ \E user \in Sessions :
       /\ GetTags(user)
       /\ UNCHANGED procVars

TagSpec == Init /\ [][TagNext]_vars

\* Tags linked to assets: tags are created and deleted, assets carry links.
LinkNext ==
  \/ \E user \in Users, name \in {<<"a">>, <<"a", "a">>} :
       /\ CreateTag(user, name, "")
       /\ UNCHANGED procVars
  \/ \E user \in Sessions, id \in Named(nextTagId) :
       /\ DeleteTag(user, id)
       /\ UNCHANGED procVars
  \/ \E user \in Users :
       /\ GetTags(user)
       /\ UNCHANGED procVars
  \/ \E user \in Users :
       /\ nextAssetId = 1
       /\ InitUpload(user, "ad.png", "image/png", Undefined, "", TRUE, TRUE)
       /\ UNCHANGED procVars
  \/ \E user \in Users, id \in DOMAIN assets :
       /\ FinalizeUpload(user, <<id>>, <<800>>, <<600>>, Undefined, Undefined,
                         Undefined, Undefined)
       /\ UNCHANGED procVars
  \/ \E user \in Users, id \in DOMAIN assets, tagIds \in TagIdLists :
       /\ PatchAsset(user, id, Undefined, "", <<tagIds>>)
       /\ UNCHANGED procVars
  \/ \E user \in Users, id \in DOMAIN assets :
       /\ GetAsset(user, id)
       /\ UNCHANGED procVars
  \/ \E user \in Users :
       /\ ListAssets(user, <<>>, 1, MaxAssets)
       /\ UNCHANGED procVars

LinkSpec == Init /\ [][LinkNext]_vars

\* a create or rename that would give its caller two tags of one stored name
WouldDuplicate(r) ==
  /\ r.op \in {"create-tag", "patch-tag"}
  /\ r.caller \in Users
  /\ r.args.name # <<>>
  /\ r.op = "patch-tag" => r.id[1] \in TagsOf(r.caller)
  /\ \E t \in TagsOf(r.caller) :
       /\ tags[t].name = Trim(r.args.name)
       /\ r.op = "patch-tag" => t # r.id[1]

\* C5: no owner ever has two tags of the same stored name, stored names are
\* trimmed, and a create or rename that would give the caller two tags of one
\* name is answered with an error and changes no tag.
TagNameUniquePerOwner ==
  /\ [](\A t1, t2 \in DOMAIN tags :
          /\ tags[t1].name = Trim(tags[t1].name)
          /\ (t1 # t2 /\ tags[t1].ownerId = tags[t2].ownerId)
               => tags[t1].name # tags[t2].name)
  /\ [][WouldDuplicate(last') =>
          (last'.status >= 400 /\ tags' = tags)]_vars

\* C5 witness: two owners hold a tag of the same name, and a create that gave
\* the name with a leading blank to an owner who has it was answered 500
DuplicateRejectedSameNameAcrossOwners ==
  /\ last.op = "create-tag"
  /\ last.status = 500
  /\ last.args.name # Trim(last.args.name)
  /\ \E t1 \in TagsOf("A"), t2 \in TagsOf("B") : tags[t1].name = tags[t2].name

\* C7: a successful tag DELETE removes the tag row and every link to it, and
\* leaves every asset row, every other tag row and every link to another tag
\* as it was; a deleted tag's id is never a tag again, and every tag a read
\* response shows (in an asset's tag list or in the tag list) is a tag row.
DeleteTagFrame ==
  /\ [][(last'.op = "delete-tag" /\ last'.status = 200) =>
          LET t == last'.id[1]
          IN /\ t \in DOMAIN tags
             /\ tags' = Without(tags, t)
             /\ \A r \in DOMAIN assetTags' : r.tagId # t
             /\ \A r \in DOMAIN assetTags :
                  r.tagId # t =>
                    (r \in DOMAIN assetTags' /\ assetTags'[r] = assetTags[r])
             /\ assets' = assets]_vars
  /\ [][\A t \in Named(nextTagId) \ DOMAIN tags : t \notin DOMAIN tags']_vars
  /\ []((last.op \in Reads /\ last.status = 200) =>
          \A t \in TagsShown(last) : t.id \in DOMAIN tags)

\* C7 witness: a tag was deleted while an asset exists that keeps a link to
\* another tag
TagDeletedOtherLinkKept ==
  /\ last.op = "delete-tag"
  /\ last.status = 200
  /\ \E r \in DOMAIN assetTags :
       r.assetId \in DOMAIN assets /\ r.tagId \in DOMAIN tags

\* ---------------------------------------------------------------- tag filter
\* the uuids a request may name as tags (asset_tags.tag_id has no foreign key)
TagUuids == 1 .. MaxTags
\* the tagIds arrays of a PATCH, repeated ids included
TagIdArrays == UNION {[1 .. n -> TagUuids] : n \in 0 .. MaxTagIds}
\* the tags parameter split at its commas, empty segments included
TagSegments ==
  UNION {[1 .. n -> {<<>>} \cup {<<t>> : t \in TagUuids}] : n \in 0 .. MaxTagIds}

\* Uploads are made ready and tagged; the list is read with a tag filter.
FilterNext ==
  \/ \E user \in Users :
       /\ InitUpload(user, "ad.png", "image/png", Undefined, "", TRUE, TRUE)
       /\ UNCHANGED procVars
  \/ \E user \in Users, id \in DOMAIN assets :
       /\ FinalizeUpload(user, <<id>>, <<800>>, <<600>>, Undefined, Undefined,
                         Undefined, Undefined)
       /\ UNCHANGED procVars
  \/ \E user \in Users, id \in DOMAIN assets, tagIds \in TagIdArrays :
       /\ PatchAsset(user, id, Undefined, "", <<tagIds>>)
       /\ UNCHANGED procVars
  \/ \E user \in Sessions, segments \in TagSegments, limit \in 1 .. MaxAssets :
       /\ ListAssets(user, segments, 1, limit)
       /\ UNCHANGED procVars

FilterSpec == Init /\ [][FilterNext]_vars

\* the tag ids a list request asked for
Requested(r) == {r.tagIds[i] : i \in DOMAIN r.tagIds}
\* the asset ids a list response returned
Returned(r) == {r.body.assets[i].id : i \in DOMAIN r.body.assets}
\* asset a holds a link to every tag id in T
HoldsAll(a, T) ==
  \A t \in T : [assetId |-> a, tagId |-> t] \in DOMAIN assetTags
\* the caller's ready assets that hold every requested tag id
Qualifying(r) ==
  {a \in DOMAIN assets : /\ assets[a].ownerId = r.caller
                         /\ assets[a].status = "ready"
                         /\ HoldsAll(a, Requested(r))}

\* C3: a list response to a request that names tag ids (two distinct ids T1
\* and T2 in particular) returns only assets that hold a link to every
\* requested id; an asset holding one of them but not the other is not
\* returned.
TagFilterSound ==
  (last.op = "list-assets" /\ last.status = 200 /\ last.tagIds # <<>>) =>
    \A a \in Returned(last) : HoldsAll(a, Requested(last))

\* C3 witness: the answer to tags=T1,T2 with T1 # T2 returns an asset and
\* leaves out a ready asset of the caller that holds exactly one of the two
TwoTagFilterExcludesPartial ==
  /\ last.op = "list-assets"
  /\ last.status = 200
  /\ Cardinality(Requested(last)) = 2
  /\ Returned(last) # {}
  /\ \E a \in DOMAIN assets \ Returned(last) :
       /\ assets[a].ownerId = last.caller
       /\ assets[a].status = "ready"
       /\ \E t \in Requested(last) : HoldsAll(a, {t})

\* C4: a list response to a request that names tag ids, repeated ids
\* included, returns every ready asset of the caller that holds all the
\* requested ids, up to the page limit: the page holds min(limit, number of
\* such assets) of them.
TagFilterComplete ==
  (last.op = "list-assets" /\ last.status = 200 /\ last.tagIds # <<>>) =>
    LET n == Cardinality(Qualifying(last))
        limit == last.body.pagination.limit
    IN Cardinality(Returned(last) \cap Qualifying(last))
         = IF n < limit THEN n ELSE limit

\* ---------------------------------------------------------------- tokens
\* Tokens are issued and revoked; the extension routes are called with any
\* Authorization header.
TokenNext ==
  \/ \E user \in Sessions :
       /\ CreateToken(user, <<"a">>)
       /\ UNCHANGED procVars
  \/ \E user \in Sessions, id \in Named(nextTokenId) :
       /\ DeleteToken(user, id)
       /\ UNCHANGED procVars
  \/ \E user \in Users :
       /\ GetTokens(user)
       /\ UNCHANGED procVars
  \/ \E authHeader \in AuthHeaders :
       /\ ExtVerify(authHeader)
       /\ UNCHANGED procVars
  \/ \E authHeader \in AuthHeaders :
       /\ nextAssetId = 1
       /\ ExtInit(authHeader, "ad.png", "image/png", Undefined, "", Undefined,
                  <<TRUE>>, TRUE, TRUE)
       /\ UNCHANGED procVars
  \/ \E authHeader \in AuthHeaders, assetId \in AssetIdInputs :
       /\ ExtFinalize(authHeader, assetId, <<800>>, <<600>>, Undefined, Undefined,
                      Undefined)
       /\ UNCHANGED procVars

TokenSpec == Init /\ [][TokenNext]_vars

ExtOps == {"ext-verify", "ext-init", "ext-finalize"}
\* the tokens POST /api/tokens has handed out so far
Issued == {GeneratePAT(k) : k \in 1 .. nextTokenId - 1}
\* header h carries a bearer token whose hash is that of a stored, non-revoked
\* row owned by o
StoredFor(h, o) ==
  /\ h # Undefined
  /\ h[1].scheme = "Bearer "
  /\ \E k \in DOMAIN personalAccessTokens :
       /\ personalAccessTokens[k].tokenHash = HashPAT(h[1].token)
       /\ personalAccessTokens[k].revokedAt = Null
       /\ personalAccessTokens[k].ownerId = o

\* C6: an extension request (verify, init, finalize) is authenticated as owner
\* O, that is answered other than 401 and served as O, if and only if its
\* header carries a bearer token whose hash is that of a stored, non-revoked
\* row owned by O; a DELETE /api/tokens/:id by the token's owner removes the
\* row, a removed token's hash is never stored again, so every later
\* extension call presenting it is answered 401; and a token that was never
\* issued is answered 401.
PATAuthentication ==
  /\ [](last.op \in ExtOps =>
         /\ \A o \in Users :
              (last.status # 401 /\ last.caller = o) <=> StoredFor(last.auth, o)
         /\ (last.auth # Undefined /\ last.auth[1].token \notin Issued)
              => last.status = 401
         /\ (/\ last.auth # Undefined
             /\ \E k \in Named(nextTokenId) \ DOMAIN personalAccessTokens :
                  last.auth[1].token = GeneratePAT(k))
              => last.status = 401)
  /\ [][/\ (/\ last'.op = "delete-token"
             /\ last'.status = 200
             /\ last'.id[1] \in TokensOf(last'.caller))
             => last'.id[1] \notin DOMAIN personalAccessTokens'
          /\ \A k \in Named(nextTokenId) \ DOMAIN personalAccessTokens :
               \A j \in DOMAIN personalAccessTokens' :
                  personalAccessTokens'[j].tokenHash # HashPAT(GeneratePAT(k))
         ]_vars

\* C6 witness: the only token ever issued authenticated an extension capture,
\* was then revoked by its owner, and an extension call presenting it as a
\* bearer token has just been answered 401
RevokedTokenRefused ==
  /\ nextTokenId = 2
  /\ DOMAIN personalAccessTokens = {}
  /\ \E a \in DOMAIN assets : assets[a].captureMethod = "extension_capture"
  /\ last.op \in ExtOps
  /\ last.auth = <<[scheme |-> "Bearer ", token |-> GeneratePAT(1)]>>
  /\ last.status = 401

\* ---------------------------------------------------------------- listing
\* what an upload gives as file name, mime type and source platform
UploadInputs ==
  {[filename |-> "Ab", mimeType |-> "image/png", sourcePlatform |-> ""],
   [filename |-> "b", mimeType |-> "video/mp4", sourcePlatform |-> "meta"]}
\* the search texts, source, type and date parameters of a list request
Searches == {"", "AB", "_"}
SourceFilters == {"", "meta"}
TypeFilters == {"", "image", "video"}
DateRanges == {<<<<>>, <<>>>>, <<<<1>>, <<1>>>>}

\* Uploads of either owner are made ready, with or without notes; the list is
\* read with any combination of search, source, type and date filters.
ListNext ==
  \/ \E user \in Users, u \in UploadInputs :
       /\ InitUpload(user, u.filename, u.mimeType, Undefined, u.sourcePlatform,
                     TRUE, TRUE)
       /\ UNCHANGED procVars
  \/ \E user \in Users, id \in DOMAIN assets, notes \in {Undefined, <<"a">>} :
       /\ FinalizeUpload(user, <<id>>, <<800>>, <<600>>, Undefined, Undefined,
                         Undefined, notes)
       /\ UNCHANGED procVars
  \/ \E user \in Users, search \in Searches, source \in SourceFilters,
        type \in TypeFilters, range \in DateRanges :
       /\ ListAssetsBy(user, QueryParams(1, MaxAssets, search, source, type, <<>>,
                                         range[1], range[2]))
       /\ UNCHANGED procVars

ListSpec == Init /\ [][ListNext]_vars

\* text holds the characters of part, in order and side by side, whatever the
\* case of the letters
ContainsText(text, part) ==
  \E i \in 0 .. Len(text) - Len(part) :
     \A j \in 1 .. Len(part) : Lower(text[i + j]) = Lower(part[j])
\* text begins with the characters of part
StartsWith(text, part) ==
  /\ Len(part) <= Len(text)
  /\ \A j \in 1 .. Len(part) : text[j] = part[j]

\* C11: every asset a list response returns is owned by the caller, is
\* 'ready', and satisfies every given filter at once: the search text occurs
\* in its file name or its notes whatever the case, its source platform is the
\* given one, its mime type starts with image/ or video/ as asked, and the day
\* it was created lies in the inclusive from/to range; the assets come newest
\* first.
ListingSound ==
  (last.op = "list-assets" /\ last.status = 200) =>
    LET q == last.args
        Row(i) == last.body.assets[i].asset
    IN /\ \A i \in DOMAIN last.body.assets :
            /\ Row(i).ownerId = last.caller
            /\ Row(i).status = "ready"
            /\ q.search # "" =>
                 \/ ContainsText(Chars(Row(i).originalFilename), Chars(q.search))
                 \/ /\ Row(i).notes # Null
                    /\ ContainsText(Chars(Row(i).notes[1]), Chars(q.search))
            /\ q.sourcePlatform # "" => Row(i).sourcePlatform = q.sourcePlatform
            /\ q.mimeTypeFilter = "image" =>
                 StartsWith(Chars(Row(i).mimeType), <<"i", "m", "a", "g", "e", "/">>)
            /\ q.mimeTypeFilter = "video" =>
                 StartsWith(Chars(Row(i).mimeType), <<"v", "i", "d", "e", "o", "/">>)
            /\ q.fromDate # <<>> => Row(i).createdAt \div 2 >= q.fromDate[1]
            /\ q.toDate # <<>> => Row(i).createdAt \div 2 <= q.toDate[1]
       /\ \A i, j \in DOMAIN last.body.assets :
            i < j => Row(i).createdAt >= Row(j).createdAt

\* the hashes of the tokens handed out so far
IssuedHashes == {HashPAT(t) : t \in Issued}
\* a token-info object of a response carries the id, name, display prefix
\* and last use of a token, and neither a token nor a hash
InfoOnly(t) ==
  /\ DOMAIN t = {"id", "name", "tokenPrefix", "lastUsedAt"}
  /\ t.tokenPrefix \notin IssuedHashes
  /\ t.name \notin IssuedHashes

\* C12: the raw token is in the response of the POST /api/tokens that created
\* it and nowhere else: a stored row holds the hash and the display prefix of
\* its token and no field with the token; the token lists of GET /api/tokens,
\* the answers of DELETE /api/tokens/:id and of the extension's verify carry
\* neither a raw token nor a token hash.
RawTokenSecrecy ==
  /\ \A k \in DOMAIN personalAccessTokens :
       /\ DOMAIN personalAccessTokens[k] =
            {"ownerId", "name", "tokenHash", "tokenPrefix", "lastUsedAt",
             "revokedAt"}
       /\ personalAccessTokens[k].tokenHash = HashPAT(GeneratePAT(k))
       /\ personalAccessTokens[k].tokenPrefix = GetPATPrefix(GeneratePAT(k))
       /\ personalAccessTokens[k].name \notin IssuedHashes
  /\ (last.op = "create-token" /\ last.status = 200) =>
       /\ DOMAIN last.body = {"token", "tokenInfo"}
       /\ last.body.tokenInfo.id = nextTokenId - 1
       /\ last.body.token = GeneratePAT(last.body.tokenInfo.id)
       /\ InfoOnly(last.body.tokenInfo)
  /\ (last.op = "get-tokens" /\ last.status = 200) =>
       /\ DOMAIN last.body = {"tokens"}
       /\ \A t \in last.body.tokens : InfoOnly(t)
  /\ (last.op = "delete-token" /\ last.status = 200) =>
       /\ DOMAIN last.body = {"success"}
       /\ last.body.success \in BOOLEAN
  /\ (last.op = "ext-verify" /\ last.status = 200) =>
       /\ DOMAIN last.body = {"valid", "ownerId"}
       /\ last.body.valid \in BOOLEAN
       /\ last.body.ownerId \in Users
  /\ (last.op \in {"get-tokens", "delete-token", "ext-verify", "create-token"}
      /\ last.status # 200) => last.body = <<>>

\* C12 witness: a token list read after a token was created shows the token
\* by its display prefix
TokenListedByPrefix ==
  /\ last.op = "get-tokens"
  /\ last.status = 200
  /\ \E t \in last.body.tokens : t.tokenPrefix = GetPATPrefix(GeneratePAT(t.id))

\* the primary / the preview storage pointer of a row: bucket and path
PrimaryPointer(row) == <<row.storageBucket, row.storagePath>>
PreviewPointer(row) == <<row.previewBucket, row.previewPath>>

\* C13: in every state every asset row, 'uploading' or 'ready', has its
\* primary pointer (bucket and path) and its preview pointer (bucket and path)
\* either all present or all absent, and no step changes one of the two
\* pointers of a row without the other.
StoragePointerPairing ==
  /\ [](\A a \in DOMAIN assets :
          \/ /\ assets[a].storageBucket # Null /\ assets[a].storagePath # Null
             /\ assets[a].previewBucket # Null /\ assets[a].previewPath # Null
          \/ /\ assets[a].storageBucket = Null /\ assets[a].storagePath = Null
             /\ assets[a].previewBucket = Null /\ assets[a].previewPath = Null)
  /\ [][\A a \in DOMAIN assets \cap DOMAIN assets' :
          (PrimaryPointer(assets'[a]) # PrimaryPointer(assets[a]))
            <=> (PreviewPointer(assets'[a]) # PreviewPointer(assets[a]))]_vars

\* C13 witness: a finalize has just made an asset 'ready' whose two pointers
\* are both present
ReadyWithBothPointers ==
  /\ last.op = "finalize-upload"
  /\ last.status = 200
  /\ \E a \in DOMAIN assets :
       /\ <<a>> = last.id
       /\ assets[a].status = "ready"
       /\ assets[a].storagePath # Null
       /\ assets[a].previewPath # Null

\* ---------------------------------------------------------------- extension capture
\* hasBlob as a request gives it: absent, false or true
HasBlobInputs == {Undefined, <<FALSE>>, <<TRUE>>}
\* the media URL a capture reports, or none
MediaUrls == {Undefined, <<"https://cdn.example/ad.mp4">>}

\* A token is issued; the extension captures with and without bytes.
CaptureNext ==
  \/ \E user \in Users :
       /\ nextTokenId = 1
       /\ CreateToken(user, <<"a">>)
       /\ UNCHANGED procVars
  \/ \E authHeader \in IssuedHeaders, filename \in Filenames,
        mediaUrl \in MediaUrls, hasBlob \in HasBlobInputs,
        signAsset \in BOOLEAN :
       /\ ExtInit(authHeader, filename, "image/png", Undefined, "", mediaUrl,
                  hasBlob, signAsset, TRUE)
       /\ UNCHANGED procVars
  \/ \E authHeader \in IssuedHeaders, assetId \in AssetIdInputs :
       /\ ExtFinalize(authHeader, assetId, <<800>>, <<600>>, Undefined, Undefined,
                      Undefined)
       /\ UNCHANGED procVars

CaptureSpec == Init /\ [][CaptureNext]_vars

RejectNext ==
  \/ \E user \in Sessions, filename \in Filenames, mimeType \in MimeTypes :
       /\ RowsCreated < MaxRows \/ user = NoUser \/ filename = "" \/ mimeType = ""
       /\ InitUpload(user, filename, mimeType, Undefined, "", TRUE, TRUE)
       /\ UNCHANGED procVars
  \/ \E user \in Sessions, assetId \in AssetIdInputs :
       /\ FinalizeUpload(user, assetId, <<800>>, <<600>>, Undefined, Undefined,
                         Undefined, Undefined)
       /\ UNCHANGED procVars
  \/ \E user \in Sessions, id \in Named(nextAssetId), tagIds \in TagIdsInputs :
       /\ PatchAsset(user, id, Undefined, "", tagIds)
       /\ UNCHANGED procVars
  \/ \E user \in Sessions, id \in Named(nextAssetId) :
       /\ DeleteAsset(user, id, TRUE, TRUE)
       /\ UNCHANGED procVars
  \/ \E user \in Sessions, name \in {<<>>, <<"a">>} :
       /\ RowsCreated < MaxRows \/ user = NoUser \/ name = <<>>
       /\ CreateTag(user, name, "")
       /\ UNCHANGED procVars
  \/ \E user \in Sessions, id \in Named(nextTagId), name \in {<<>>, <<"b">>} :
       /\ PatchTag(user, id, name, "")
       /\ UNCHANGED procVars
  \/ \E user \in Sessions, id \in Named(nextTagId) :
       /\ DeleteTag(user, id)
       /\ UNCHANGED procVars
  \/ \E user \in Sessions, name \in {<<>>, <<"a">>} :
       /\ RowsCreated < MaxRows \/ user = NoUser \/ name = <<>>
       /\ CreateToken(user, name)
       /\ UNCHANGED procVars
  \/ \E user \in Sessions, id \in Named(nextTokenId) :
       /\ DeleteToken(user, id)
       /\ UNCHANGED procVars
  \/ \E authHeader \in IssuedHeaders :
       /\ ExtVerify(authHeader)
       /\ UNCHANGED procVars
  \/ \E authHeader \in IssuedHeaders, filename \in Filenames :
       /\ RowsCreated < MaxRows \/ filename = ""
       /\ ExtInit(authHeader, filename, "image/png", Undefined, "", Undefined,
                  <<TRUE>>, TRUE, TRUE)
       /\ UNCHANGED procVars
  \/ \E authHeader \in IssuedHeaders, assetId \in AssetIdInputs :
       /\ ExtFinalize(authHeader, assetId, <<800>>, <<600>>, Undefined, Undefined,
                      Undefined)
       /\ UNCHANGED procVars

RejectSpec == Init /\ [][RejectNext]_vars

Rejections == {400, 401, 404}

\* C15 as stated: a request answered 401, 400 or 404 leaves the asset, tag,
\* link and token tables exactly as they were.
RejectedLeavesAllTables ==
  [][last'.status \in Rejections =>
       /\ assets' = assets
       /\ tags' = tags
       /\ assetTags' = assetTags
       /\ personalAccessTokens' = personalAccessTokens]_vars

\* the token table is as it was, but for the time of last use of the rows
\* that match the presented token
SameButLastUse(header) ==
  /\ DOMAIN personalAccessTokens' = DOMAIN personalAccessTokens
  /\ \A k \in DOMAIN personalAccessTokens :
       IF k \in MatchingPATs(header)
       THEN [personalAccessTokens'[k] EXCEPT !.lastUsedAt = Null]
              = [personalAccessTokens[k] EXCEPT !.lastUsedAt = Null]
       ELSE personalAccessTokens'[k] = personalAccessTokens[k]

\* C15 amended: a request answered 401, 400 or 404 leaves the asset, tag and
\* link tables exactly as they were, and the token table too, except that an
\* extension init answered 400 has recorded the use of the token it was
\* authenticated with (that row's lastUsedAt, and nothing else).
RejectedLeavesTablesButLastUse ==
  [][last'.status \in Rejections =>
       /\ assets' = assets
       /\ tags' = tags
       /\ assetTags' = assetTags
       /\ IF last'.op = "ext-init" /\ last'.status = 400
          THEN SameButLastUse(last'.auth)
          ELSE personalAccessTokens' = personalAccessTokens]_vars

\* C15 witness: an extension init without a file name has been answered 400,
\* no asset was ever created, and the token it presented has a time of last
\* use
RejectedInitRecordedUse ==
  /\ last.op = "ext-init"
  /\ last.status = 400
  /\ nextAssetId = 1
  /\ \E k \in MatchingPATs(last.auth) :
       personalAccessTokens[k].lastUsedAt # Null

\* C16: every extension request (verify, init, finalize) whose token is
\* verified sets the time of last use of the matched token row to the time of
\* the request and is served as that row's owner; a request whose
\* verification fails (401) changes no token row.
LastUsedTracking ==
  [][last'.op \in ExtOps =>
       IF last'.status # 401
       THEN \E k \in MatchingPATs(last'.auth) :
              /\ k \in DOMAIN personalAccessTokens'
              /\ personalAccessTokens'[k].lastUsedAt = <<now>>
              /\ last'.caller = personalAccessTokens[k].ownerId
       ELSE personalAccessTokens' = personalAccessTokens]_vars

\* ------------------------------------------------- finalize, step by step
\* The finalize handlers await the authentication, then one UPDATE statement,
\* then (extension route) one INSERT of links, then answer.  Two requests are
\* served concurrently, so each await is a step of its own.


\* the row a call's UPDATE makes of row: the SET clause of its route
SetOf(call, row) ==
  IF call.route = "web"
  THEN FinalizeSet(row, call.width, call.height, call.durationSeconds,
                   call.sha256, call.sizeBytes, call.notes)
  ELSE ExtFinalizeSet(row, call.width, call.height, call.durationSeconds,
                      call.sha256)

\* the tagIds array of a call ([] when the body has none)
TagIdsOf(call) == IF call.tagIds = Undefined THEN <<>> ELSE call.tagIds[1]

\* the calls whose UPDATE found the row and changed it
Applied == {c \in DOMAIN finalizing : finalizing[c].order > 0}

FinalizeReply(call, status, body) ==
  ReplyAuth(IF call.route = "web" THEN "finalize-upload" ELSE "ext-finalize",
            call.caller, call.auth, call.assetId, TagIdsOf(call), status, body)

\* the handler up to its UPDATE: authenticate, read the body, 401 / 400
BeginFinalize(c, route, user, authHeader, assetId, width, height, sizeBytes, notes, tagIds) ==
  LET caller == IF route = "web" THEN user ELSE VerifyPAT(authHeader)
      call == [IdleCall EXCEPT
                 !.route = route, !.caller = caller,
                 !.auth = IF route = "web" THEN Undefined ELSE authHeader,
                 !.assetId = assetId, !.width = width, !.height = height,
                 !.sizeBytes = IF route = "web" THEN sizeBytes ELSE Undefined,
                 !.notes = IF route = "web" THEN notes ELSE Undefined,
                 !.tagIds = IF route = "web" THEN Undefined ELSE tagIds]
      refused == IF caller = NoUser THEN 401
                 ELSE IF assetId = Undefined THEN 400 ELSE 0
  IN
  /\ finalizing[c].pc = "idle"
  /\ IF refused # 0
     THEN /\ last' = FinalizeReply(call, refused, <<>>)
          /\ finalizing' = finalizing
     ELSE /\ last' = last
          /\ finalizing' = [finalizing EXCEPT ![c] = [call EXCEPT !.pc = "update"]]
  /\ UNCHANGED <<dbVars, uploader, captures, inflight, popup>>

\* the UPDATE ... WHERE id AND owner ... RETURNING statement of call c
ApplyFinalize(c) ==
  LET call == finalizing[c]
      a == call.assetId[1]
  IN
  /\ call.pc = "update"
  /\ IF OwnedAsset(call.caller, call.assetId)
     THEN /\ assets' = With(assets, a, SetOf(call, assets[a]))
          /\ finalizing' = [finalizing EXCEPT ![c] =
               [call EXCEPT !.seen = <<assets[a]>>,
                            !.order = Cardinality(Applied) + 1,
                            !.pc = IF TagIdsOf(call) # <<>> THEN "link"
                                   ELSE "respond"]]
     ELSE /\ assets' = assets
          /\ finalizing' = [finalizing EXCEPT ![c] = [call EXCEPT !.pc = "respond"]]
  /\ UNCHANGED <<assetTags, tags, personalAccessTokens, storage, nextAssetId,
                 nextTagId, nextTokenId, now, last, uploader, captures, inflight, popup>>

\* a row of asset_tags that names no asset
NoForeignKey(a) == TRUE

\* asset_tags.asset_id references assets.id: an INSERT of a link of asset a
\* is refused unless the asset row exists
ForeignKeyHolds(a) == a \in DOMAIN assets

\* the INSERT of the links of call c (extension route, tagIds not empty); a
\* refused INSERT throws and the handler answers 500
LinkFinalize(c) ==
  LET call == finalizing[c]
      ok == ForeignKeyHolds(call.assetId[1])
  IN
  /\ call.pc = "link"
  /\ assetTags' =
       IF ok
       THEN assetTags (+) RowsBag(LinkRows(call.assetId[1], TagIdsOf(call)))
       ELSE assetTags
  /\ finalizing' = [finalizing EXCEPT ![c] =
       [call EXCEPT !.pc = IF ok THEN "respond" ELSE "error"]]
  /\ UNCHANGED <<assets, tags, personalAccessTokens, storage, nextAssetId,
                 nextTagId, nextTokenId, now, last, uploader, captures,
                 inflight, popup>>

\* the answer of call c: the row its UPDATE returned, 404 without one, 500
\* after a statement that threw
RespondFinalize(c) ==
  LET call == finalizing[c]
  IN
  /\ call.pc \in {"respond", "error"}
  /\ last' = IF call.pc = "error" THEN FinalizeReply(call, 500, <<>>)
             ELSE IF call.order > 0
             THEN FinalizeReply(call, 200, [asset |-> SetOf(call, call.seen[1])])
             ELSE FinalizeReply(call, 404, <<>>)
  /\ finalizing' = [finalizing EXCEPT ![c] =
       IF call.pc = "error" THEN [call EXCEPT !.pc = "failed"]
       ELSE IF call.order > 0 THEN [call EXCEPT !.pc = "done"]
       ELSE IdleCall]
  /\ UNCHANGED <<dbVars, uploader, captures, inflight, popup>>

\* the bodies the web client sends: the picture's size alone, or the file
\* size and notes alone
WebBodies ==
  {[width |-> <<800>>, height |-> <<600>>, sizeBytes |-> Undefined,
    notes |-> Undefined],
   [width |-> Undefined, height |-> Undefined, sizeBytes |-> <<5>>,
    notes |-> <<"seen on feed">>]}
\* no assetId, or the id of an asset
OwnIdInputs == {Undefined} \cup {<<n>> : n \in DOMAIN assets}
\* no header, or the bearer header of the first token generated
RaceHeaders == {Undefined, <<[scheme |-> "Bearer ", token |-> GeneratePAT(1)]>>}

\* one asset, one tag and one token of user A, and finalize requests on them
\* served concurrently
RaceNext ==
  \/ \E user \in {"A"} :
       /\ nextAssetId = 1
       /\ InitUpload(user, "ad.png", "image/png", Undefined, "", TRUE, TRUE)
       /\ UNCHANGED procVars
  \/ \E user \in {"A"} :
       /\ nextTagId = 1
       /\ CreateTag(user, <<"a">>, "")
       /\ UNCHANGED procVars
  \/ \E user \in {"A"} :
       /\ nextTokenId = 1
       /\ CreateToken(user, <<"a">>)
       /\ UNCHANGED procVars
  \/ \E c \in 1 .. MaxCalls, user \in Sessions, assetId \in OwnIdInputs,
        b \in WebBodies :
       BeginFinalize(c, "web", user, Undefined, assetId, b.width, b.height,
                     b.sizeBytes, b.notes, Undefined)
  \/ \E c \in 1 .. MaxCalls, authHeader \in RaceHeaders,
        assetId \in OwnIdInputs,
        tagIds \in {Undefined} \cup {<<<<t>>>> : t \in DOMAIN tags} :
       BeginFinalize(c, "ext", NoUser, authHeader, assetId, <<640>>, <<480>>,
                     Undefined, Undefined, tagIds)
  \/ \E c \in 1 .. MaxCalls : ApplyFinalize(c)
  \/ \E c \in 1 .. MaxCalls : LinkFinalize(c)
  \/ \E c \in 1 .. MaxCalls : RespondFinalize(c)

RaceSpec == Init /\ [][RaceNext]_vars

\* the last two calls on one asset, first and second by the order of their
\* UPDATEs: no UPDATE of the asset came between them or after them
Races ==
  {p \in Applied \X Applied :
     /\ finalizing[p[1]].order < finalizing[p[2]].order
     /\ finalizing[p[1]].assetId = finalizing[p[2]].assetId
     /\ \A c \in Applied \ {p[1], p[2]} :
          finalizing[c].assetId = finalizing[p[1]].assetId =>
            finalizing[c].order < finalizing[p[1]].order}

\* the links the calls have inserted so far
RECURSIVE LinksInserted(_)
LinksInserted(n) ==
  IF n = 0 THEN EmptyBag
  ELSE LinksInserted(n - 1) (+)
       (IF finalizing[n].order > 0 /\ finalizing[n].pc \in {"respond", "done"}
        THEN RowsBag(LinkRows(finalizing[n].assetId[1], TagIdsOf(finalizing[n])))
        ELSE EmptyBag)

\* the fields of the row with the values the body of a call gives them
\* (x || null)
FromCall(call, row) ==
  /\ row.width = OrNullNum(call.width)
  /\ row.height = OrNullNum(call.height)
  /\ row.durationSeconds = DurationText(call.durationSeconds)
  /\ row.sha256 = OrNullStr(call.sha256)
  /\ row.sizeBytes = OrNullNum(call.sizeBytes)
  /\ row.notes = OrNullStr(call.notes)

\* C17 as stated: once two finalize calls on one asset have both applied
\* their UPDATE, the asset is 'ready', width, height, duration, sha256, size
\* and notes are all those of the call whose UPDATE came last, and the row is
\* the one the two calls leave when run one after the other.
LastWriteWinsAllFields ==
  \A p \in Races :
    LET first == finalizing[p[1]]
        second == finalizing[p[2]]
        row == assets[second.assetId[1]]
    IN /\ row.status = "ready"
       /\ FromCall(second, row)
       /\ row = SetOf(second, SetOf(first, first.seen[1]))

\* C17 amended: once two finalize calls on one asset have both applied their
\* UPDATE, the asset is 'ready', every field the last UPDATE writes (all six
\* on the web route; width, height, duration and sha256 on the extension
\* route) is that call's, size and notes after an extension call are what the
\* call before left, the row is the one the two calls leave when run one
\* after the other in the order of their UPDATEs, and the links are those of
\* both calls.
LastWriteWins ==
  /\ \A p \in Races :
       LET first == finalizing[p[1]]
           second == finalizing[p[2]]
           row == assets[second.assetId[1]]
           before == SetOf(first, first.seen[1])
       IN /\ row.status = "ready"
          /\ row.width = OrNullNum(second.width)
          /\ row.height = OrNullNum(second.height)
          /\ row.durationSeconds = DurationText(second.durationSeconds)
          /\ row.sha256 = OrNullStr(second.sha256)
          /\ IF second.route = "web"
             THEN /\ row.sizeBytes = OrNullNum(second.sizeBytes)
                  /\ row.notes = OrNullStr(second.notes)
             ELSE /\ row.sizeBytes = before.sizeBytes
                  /\ row.notes = before.notes
          /\ row = SetOf(second, before)
  /\ assetTags = LinksInserted(MaxCalls)

\* C17 witness: a web call and an extension call on one asset are in flight
\* together, both past their UPDATE and neither answered, and the extension
\* call's UPDATE came last on a row holding the web call's notes
RaceWebThenExtension ==
  \E p \in Races :
    /\ finalizing[p[1]].route = "web"
    /\ finalizing[p[2]].route = "ext"
    /\ finalizing[p[1]].pc = "respond"
    /\ finalizing[p[2]].pc = "respond"
    /\ finalizing[p[1]].notes # Undefined
    /\ assets[finalizing[p[2]].assetId[1]].notes = finalizing[p[1]].notes
    /\ assets[finalizing[p[2]].assetId[1]].width = <<640>>

\* ------------------------------------------------- the web client's uploader
\* UploadDropzone: files is its list, isUploading its flag; pendingFiles, i and
\* pc are the position of the one uploadFiles run (the snapshot it loops over,
\* the index of the file it is at, the await it is suspended in); assetId,
\* assetUpload, previewUpload and previewData are the locals of
\* uploadSingleFile.  A file record also remembers the asset its init got and
\* how its primary PUT ended.

\* an Upload button that can be pressed during a run
ButtonNeverDisabled == FALSE

\* <Button disabled={isUploading}>
ButtonDisabled == uploader.isUploading

\* a client that goes on after a PUT whatever its outcome
GoOnAfterPut(ok) == TRUE

\* uploadToStorage resolves on a 2xx answer and rejects otherwise
PutResolves(ok) == ok

FileAt(k) == uploader.files[k]
\* the position in files of the file with this id (0: removed)
PositionOf(id) ==
  IF \E k \in DOMAIN uploader.files : FileAt(k).id = id
  THEN CHOOSE k \in DOMAIN uploader.files : FileAt(k).id = id
  ELSE 0
Pending == {k \in DOMAIN uploader.files : FileAt(k).status = "pending"}
RECURSIVE IdsOf(_, _)
IdsOf(files, status) ==
  IF files = <<>> THEN <<>>
  ELSE (IF Head(files).status = status THEN <<Head(files).id>> ELSE <<>>)
       \o IdsOf(Tail(files), status)

\* updateFile(id, updates) on a list of files
UpdateFile(files, id, status, assetId, put) ==
  [k \in DOMAIN files |->
     IF files[k].id = id
     THEN [files[k] EXCEPT !.status = status,
                           !.assetId = IF assetId # Undefined THEN assetId ELSE @,
                           !.put = IF put # "" THEN put ELSE @]
     ELSE files[k]]

\* the id of the file the run is at
Current == uploader.pendingFiles[uploader.i]

CompletedOnceInitialized(completedIds, status, assetId) ==
  IF assetId # Undefined THEN Append(completedIds, assetId[1]) ELSE completedIds
\* completedIds after one iteration: uploadSingleFile returned the asset id
\* (the file is 'done') and it is pushed, or it threw
Completed(completedIds, status, assetId) ==
  IF status = "done" THEN Append(completedIds, assetId[1]) ELSE completedIds

\* the end of one iteration of the for loop: the file of this iteration gets
\* its last status, then the next file starts (status 'uploading', init
\* request sent) or the run ends (setIsUploading(false), then
\* onUploadComplete(completedIds) if an id was pushed; notified lists the
\* calls of onUploadComplete)
NextIteration(u, status, put) ==
  LET files == UpdateFile(u.files, u.pendingFiles[u.i], status, Undefined, put)
      completedIds == Completed(u.completedIds, status, u.assetId)
      locals == [u EXCEPT !.assetId = Undefined, !.assetUpload = Null,
                          !.previewUpload = Null, !.previewData = FALSE]
  IN
  IF u.i < Len(u.pendingFiles)
  THEN [locals EXCEPT
          !.files = UpdateFile(files, u.pendingFiles[u.i + 1], "uploading",
                               Undefined, ""),
          !.completedIds = completedIds,
          !.i = u.i + 1, !.pc = "init"]
  ELSE [locals EXCEPT !.files = files, !.isUploading = FALSE,
                      !.pendingFiles = <<>>, !.i = 0, !.pc = "idle",
                      !.completedIds = <<>>,
                      !.notified = IF completedIds # <<>>
                                   THEN Append(@, completedIds) ELSE @]

\* addFiles: one more valid file, at any time
AddFiles ==
  /\ uploader.added < MaxFiles
  /\ uploader' = [uploader EXCEPT
       !.added = @ + 1,
       !.files = Append(@, [id |-> uploader.added + 1, status |-> "pending",
                            assetId |-> Undefined, put |-> "none"])]
  /\ UNCHANGED <<dbVars, last, finalizing, captures, inflight, popup>>

\* removeFile: the remove button works on a pending file outside a run
RemoveFile(id) ==
  /\ ~uploader.isUploading
  /\ \E k \in Pending : FileAt(k).id = id
  /\ uploader' = [uploader EXCEPT
       !.files = SubSeq(@, 1, PositionOf(id) - 1)
                 \o SubSeq(@, PositionOf(id) + 1, Len(@))]
  /\ UNCHANGED <<dbVars, last, finalizing, captures, inflight, popup>>

\* uploadFiles up to its first await: the pending files are snapshotted, the
\* flag is set, the first file becomes 'uploading' and its init request leaves
UploadFiles ==
  LET pendingFiles == IdsOf(uploader.files, "pending")
  IN
  /\ ~ButtonDisabled
  /\ pendingFiles # <<>>
  /\ uploader' = [uploader EXCEPT
       !.isUploading = TRUE, !.pendingFiles = pendingFiles, !.i = 1,
       !.pc = "init", !.completedIds = <<>>,
       !.files = UpdateFile(@, pendingFiles[1], "uploading", Undefined, "")]
  /\ UNCHANGED <<dbVars, last, finalizing, captures, inflight, popup>>

\* the init-upload request of the current file is served and answered
UploaderInit(user, signAsset, signPreview) ==
  /\ uploader.pc = "init"
  /\ InitUpload(user, "ad.png", "image/png", <<5>>, "other", signAsset,
                signPreview)
  /\ uploader' =
       IF last'.status = 200
       THEN [uploader EXCEPT
               !.files = UpdateFile(@, Current, "processing",
                                    <<last'.body.assetId>>, ""),
               !.assetId = <<last'.body.assetId>>,
               !.assetUpload = last'.body.assetUpload,
               !.previewUpload = last'.body.previewUpload,
               !.pc = "put"]
       ELSE NextIteration(uploader, "error", "")
  /\ UNCHANGED <<finalizing, captures, inflight, popup>>

\* a PUT of bytes to a signed upload URL, as the storage provider serves it
PutTo(bucket, upload, ok, a) ==
  /\ storage' = IF ok THEN storage \cup {<<bucket, upload[1]>>} ELSE storage
  /\ last' = Reply("put-object", NoUser, a, <<>>, IF ok THEN 200 ELSE 403, <<>>)
  /\ UNCHANGED <<assets, assetTags, tags, personalAccessTokens,
                 nextAssetId, nextTagId, nextTokenId, now>>

\* generatePreview ended (with a preview or with null) and the PUT of the file
\* is answered
UploaderPut(previewData, ok) ==
  /\ uploader.pc = "put"
  /\ PutTo(ASSETS_BUCKET, uploader.assetUpload, ok, uploader.assetId)
  /\ uploader' =
       IF PutResolves(ok)
       THEN [uploader EXCEPT
               !.files = UpdateFile(@, Current, "processing", Undefined,
                                    IF ok THEN "ok" ELSE "failed"),
               !.previewData = previewData,
               !.pc = IF previewData /\ uploader.previewUpload # Null
                      THEN "putPreview" ELSE "finalize"]
       ELSE NextIteration(uploader, "error", "failed")
  /\ UNCHANGED <<finalizing, captures, inflight, popup>>

\* the PUT of the preview is answered
UploaderPutPreview(ok) ==
  /\ uploader.pc = "putPreview"
  /\ PutTo(PREVIEWS_BUCKET, uploader.previewUpload, ok, uploader.assetId)
  /\ uploader' =
       IF ok THEN [uploader EXCEPT !.pc = "finalize"]
       ELSE NextIteration(uploader, "error", "")
  /\ UNCHANGED <<finalizing, captures, inflight, popup>>

\* the finalize-upload request of the current file is served and answered
UploaderFinalize(user) ==
  /\ uploader.pc = "finalize"
  /\ FinalizeUpload(user, uploader.assetId,
                    IF uploader.previewData THEN <<800>> ELSE Undefined,
                    IF uploader.previewData THEN <<600>> ELSE Undefined,
                    Undefined, Undefined, <<5>>, Undefined)
  /\ uploader' = NextIteration(uploader,
                               IF last'.status = 200 THEN "done" ELSE "error",
                               "")
  /\ UNCHANGED <<finalizing, captures, inflight, popup>>

\* ------------------------------------------------- the extension's worker
\* handleCaptureMedia, one run per CAPTURE_MEDIA message; pc is the await the
\* run is suspended in, 'done' once it resolved and 'failed' once it threw.

\* uploadToStorage throws unless response.ok
CapturePutOk(ok) == ok

\* the message arrives: without a configured token the run throws at once;
\* otherwise the media is downloaded (blob: it gave bytes) and the init
\* request leaves
handleCaptureMedia(run, accessToken, blob, type, tagIds) ==
  IF accessToken = Undefined
  THEN [run EXCEPT !.pc = "failed"]
  ELSE [run EXCEPT !.pc = "init",
                   !.auth = <<[scheme |-> "Bearer ", token |-> accessToken[1]]>>,
                   !.blob = blob, !.type = type, !.tagIds = tagIds]
CaptureMedia(k, accessToken, blob, type, tagIds) ==
  /\ captures[k].pc = "idle"
  /\ captures' = [captures EXCEPT ![k] =
       handleCaptureMedia(@, accessToken, blob, type, tagIds)]
  /\ UNCHANGED <<dbVars, last, finalizing, uploader, inflight, popup>>

\* the extension init request of run k is served and answered
CaptureInit(k, signAsset, signPreview) ==
  LET run == captures[k]
  IN
  /\ run.pc = "init"
  /\ ExtInit(run.auth, "ad.png",
             IF run.type = "video" THEN "video/mp4" ELSE "image/png",
             IF run.blob THEN <<5>> ELSE Undefined, "meta",
             <<"https://cdn.example/ad.mp4">>, <<run.blob>>, signAsset,
             signPreview)
  /\ captures' = [captures EXCEPT ![k] =
       IF last'.status = 200
       THEN [@ EXCEPT !.assetId = <<last'.body.assetId>>,
                      !.assetUpload = last'.body.assetUpload,
                      !.previewUpload = last'.body.previewUpload,
                      !.pc = IF run.blob THEN "put" ELSE "finalize"]
       ELSE [@ EXCEPT !.pc = "failed"]]
  /\ UNCHANGED <<finalizing, uploader, inflight, popup>>

\* the PUT of the blob of run k is answered
CapturePut(k, ok) ==
  LET run == captures[k]
  IN
  /\ run.pc = "put"
  /\ PutTo(ASSETS_BUCKET, run.assetUpload, ok, run.assetId)
  /\ captures' = [captures EXCEPT ![k] =
       [@ EXCEPT !.put = IF ok THEN "ok" ELSE "failed",
                 !.pc = IF ~CapturePutOk(ok) THEN "failed"
                        ELSE IF run.type = "image" THEN "thumb"
                        ELSE "finalize"]]
  /\ UNCHANGED <<finalizing, uploader, inflight, popup>>

\* the thumbnail of an image: none was made, or its PUT is answered; a
\* failure is caught and the run goes on
CaptureThumb(k, thumbnail, ok) ==
  LET run == captures[k]
  IN
  /\ run.pc = "thumb"
  /\ IF thumbnail
     THEN PutTo(PREVIEWS_BUCKET, run.previewUpload, ok, run.assetId)
     ELSE UNCHANGED <<dbVars, last>>
  /\ captures' = [captures EXCEPT ![k] = [@ EXCEPT !.pc = "finalize"]]
  /\ UNCHANGED <<finalizing, uploader, inflight, popup>>

\* notifyComplete: an UPLOAD_COMPLETE message for candidate k leaves for the
\* popup; notifyProgress messages change no status and are left out, and
\* nothing calls _notifyError
notifyComplete(k) ==
  [popup EXCEPT !.inbox = @ \cup {[type |-> "UPLOAD_COMPLETE",
                                   candidateId |-> k]}]

\* the extension finalize request of run k is served and answered; a run that
\* got 200 notifies the popup and resolves, any other throws
CaptureFinalize(k) ==
  LET run == captures[k]
  IN
  /\ run.pc = "finalize"
  /\ ExtFinalize(run.auth, run.assetId, <<640>>, <<480>>, Undefined,
                 Undefined, run.tagIds)
  /\ captures' = [captures EXCEPT ![k] =
       [@ EXCEPT !.pc = IF last'.status = 200 THEN "done" ELSE "failed"]]
  /\ popup' = IF last'.status = 200 THEN notifyComplete(k) ELSE popup
  /\ UNCHANGED <<finalizing, uploader, inflight>>

\* the two clients of user A at work, while A's other tabs delete and edit
\* assets and revoke the token
ClientNext ==
  \/ \E user \in {"A"} :
       /\ nextTokenId = 1
       /\ CreateToken(user, <<"a">>)
       /\ UNCHANGED procVars
  \/ \E user \in {"A"}, id \in DOMAIN assets :
       /\ DeleteAsset(user, id, TRUE, TRUE)
       /\ UNCHANGED procVars
  \/ \E user \in {"A"}, id \in DOMAIN assets :
       /\ PatchAsset(user, id, <<"seen on feed">>, "", Undefined)
       /\ UNCHANGED procVars
  \/ AddFiles
  \/ \E id \in 1 .. MaxFiles : RemoveFile(id)
  \/ UploadFiles
  \/ \E user \in {"A", NoUser}, sign \in BOOLEAN :
       UploaderInit(user, sign, sign)
  \/ \E previewData \in BOOLEAN, ok \in BOOLEAN : UploaderPut(previewData, ok)
  \/ \E ok \in BOOLEAN : UploaderPutPreview(ok)
  \/ \E user \in {"A", NoUser} : UploaderFinalize(user)
  \/ \E k \in 1 .. MaxCaptures, accessToken \in {Undefined, <<GeneratePAT(1)>>},
        blob \in BOOLEAN, type \in {"image", "video"} :
       CaptureMedia(k, accessToken, blob, type, Undefined)
  \/ \E k \in 1 .. MaxCaptures, sign \in BOOLEAN : CaptureInit(k, sign, sign)
  \/ \E k \in 1 .. MaxCaptures, ok \in BOOLEAN : CapturePut(k, ok)
  \/ \E k \in 1 .. MaxCaptures, thumbnail \in BOOLEAN, ok \in BOOLEAN :
       CaptureThumb(k, thumbnail, ok)
  \/ \E k \in 1 .. MaxCaptures : CaptureFinalize(k)

ClientSpec == Init /\ [][ClientNext]_vars

\* the files and the capture runs whose primary PUT ended this way, each with
\* the asset its init created
Uploads(put) ==
  {uploader.files[k].assetId : k \in {j \in DOMAIN uploader.files :
                                        uploader.files[j].put = put}}
  \cup {captures[k].assetId : k \in {j \in DOMAIN captures :
                                       captures[j].put = put}}

\* the capture runs that had no bytes to upload and whose init succeeded
UrlOnlyRuns ==
  {captures[k].assetId : k \in {j \in DOMAIN captures :
      ~captures[j].blob /\ captures[j].assetId # Undefined}}

\* C18: a finalize request of the web uploader or of the extension worker
\* names an asset whose init succeeded and, when there were bytes to upload,
\* whose primary PUT succeeded; an asset whose primary PUT failed is never
\* named by a finalize request and, as long as it is not deleted, has status
\* 'uploading'; no asset is ever marked 'failed'.
FinalizeOnlyAfterUpload ==
  /\ last.op = "finalize-upload" => last.id \in Uploads("ok")
  /\ last.op = "ext-finalize" => last.id \in Uploads("ok") \cup UrlOnlyRuns
  /\ last.op \in {"finalize-upload", "ext-finalize"} =>
       last.id \notin Uploads("failed")
  /\ \A id \in Uploads("failed") :
       id[1] \in DOMAIN assets => assets[id[1]].status = "uploading"
  /\ \A a \in DOMAIN assets : assets[a].status # "failed"

\* C18 witness: the uploader's run is over with a file in 'error' whose PUT
\* failed, a capture run threw on its failed PUT, and both assets are still
\* there in status 'uploading'
FailedPutsLeftUploading ==
  /\ uploader.pc = "idle"
  /\ \E k \in DOMAIN uploader.files :
       /\ uploader.files[k].status = "error"
       /\ uploader.files[k].put = "failed"
       /\ uploader.files[k].assetId[1] \in DOMAIN assets
  /\ \E k \in DOMAIN captures :
       /\ captures[k].pc = "failed"
       /\ captures[k].put = "failed"
       /\ captures[k].assetId[1] \in DOMAIN assets
  /\ \A a \in DOMAIN assets : assets[a].status = "uploading"

\* the web uploader alone, while the user's other tab deletes assets
UploaderNext ==
  \/ \E user \in {"A"}, id \in DOMAIN assets :
       /\ DeleteAsset(user, id, TRUE, TRUE)
       /\ UNCHANGED procVars
  \/ AddFiles
  \/ \E id \in 1 .. MaxFiles : RemoveFile(id)
  \/ UploadFiles
  \/ \E user \in {"A", NoUser}, sign \in BOOLEAN :
       UploaderInit(user, sign, sign)
  \/ \E previewData \in BOOLEAN, ok \in BOOLEAN : UploaderPut(previewData, ok)
  \/ \E ok \in BOOLEAN : UploaderPutPreview(ok)
  \/ \E user \in {"A", NoUser} : UploaderFinalize(user)

UploaderSpec == Init /\ [][UploaderNext]_vars

\* the files of the list that are being uploaded
InProgress ==
  {k \in DOMAIN uploader.files :
     uploader.files[k].status \in {"uploading", "processing"}}

\* C20: at any time at most one file of the uploader is 'uploading' or
\* 'processing', and while the init-upload request of a file is out, every
\* file before it in the run is 'done' or 'error' and no other file is in
\* progress.
SequentialUpload ==
  /\ Cardinality(InProgress) <= 1
  /\ uploader.pc = "init" =>
       /\ \A j \in 1 .. (uploader.i - 1) :
            uploader.files[PositionOf(uploader.pendingFiles[j])].status
              \in {"done", "error"}
       /\ InProgress = {PositionOf(Current)}

\* C20 witness: the init-upload request of the second file of a run is out,
\* the first file is 'done' and its asset 'ready'
SecondFileStartsAfterFirstDone ==
  /\ uploader.pc = "init"
  /\ uploader.i = 2
  /\ uploader.files[PositionOf(uploader.pendingFiles[1])].status = "done"
  /\ uploader.files[PositionOf(Current)].status = "uploading"
  /\ \E a \in DOMAIN assets : assets[a].status = "ready"

\* ------------------------------------------------- previews
\* two uploads of user A whose objects reach the storage provider or not, and
\* the two reads
PreviewNext ==
  \/ \E user \in {"A"} :
       /\ InitUpload(user, "ad.png", "image/png", Undefined, "", TRUE, TRUE)
       /\ UNCHANGED procVars
  \/ \E a \in DOMAIN assets, which \in {"asset", "preview"} :
       /\ PutObject(a, which)
       /\ UNCHANGED procVars
  \/ \E user \in {"A"}, assetId \in OwnIdInputs :
       /\ FinalizeUpload(user, assetId, <<800>>, <<600>>, Undefined, Undefined,
                         Undefined, Undefined)
       /\ UNCHANGED procVars
  \/ \E user \in Sessions, id \in Named(nextAssetId) :
       /\ GetAsset(user, id)
       /\ UNCHANGED procVars
  \/ \E user \in Sessions :
       /\ ListAssets(user, <<>>, 1, MaxAssets)
       /\ UNCHANGED procVars

PreviewSpec == Init /\ [][PreviewNext]_vars

\* the provider holds the primary object / the preview object of asset a
PrimaryStored(a) ==
  <<assets[a].storageBucket[1], assets[a].storagePath[1]>> \in storage
PreviewStored(a) ==
  <<assets[a].previewBucket[1], assets[a].previewPath[1]>> \in storage

\* C19: GET /api/assets of a signed-in user answers 200 whatever previews
\* exist, and each asset of the page has previewUrl null exactly when its own
\* preview cannot be signed and the URL of its own preview otherwise; GET
\* /api/assets/:id of an owned asset answers 200 with assetUrl and previewUrl
\* each null exactly when that object cannot be signed.
PreviewDegradation ==
  /\ (last.op = "list-assets" /\ last.caller # NoUser) =>
       /\ last.status = 200
       /\ \A i \in DOMAIN last.body.assets :
            LET e == last.body.assets[i]
            IN IF PreviewStored(e.id)
               THEN e.previewUrl = <<[bucket |-> e.asset.previewBucket[1],
                                      path |-> e.asset.previewPath[1]]>>
               ELSE e.previewUrl = Null
  /\ (last.op = "get-asset" /\ OwnedAsset(last.caller, last.id)) =>
       /\ last.status = 200
       /\ (last.body.assetUrl = Null) = ~PrimaryStored(last.id[1])
       /\ (last.body.previewUrl = Null) = ~PreviewStored(last.id[1])
       /\ last.body.assetUrl # Null =>
            last.body.assetUrl[1].path = assets[last.id[1]].storagePath[1]
       /\ last.body.previewUrl # Null =>
            last.body.previewUrl[1].path = assets[last.id[1]].previewPath[1]

\* C19 witness: a page of two assets was answered 200, one with previewUrl
\* null and the other with its preview URL
PageWithOnePreviewMissing ==
  /\ last.op = "list-assets"
  /\ last.status = 200
  /\ Len(last.body.assets) = 2
  /\ \E i, j \in DOMAIN last.body.assets :
       /\ last.body.assets[i].previewUrl = Null
       /\ last.body.assets[j].previewUrl # Null

\* ------------------------------------------------- init that fails
\* both init routes with a storage provider that may refuse to sign either
\* upload URL
InitNext ==
  \/ \E user \in Sessions, filename \in Filenames,
        refused \in SUBSET {"asset", "preview"} :
       /\ InitUpload(user, filename, "image/png", <<5>>, "",
                     "asset" \notin refused, "preview" \notin refused)
       /\ UNCHANGED procVars
  \/ \E user \in {"A"} :
       /\ nextTokenId = 1
       /\ CreateToken(user, <<"a">>)
       /\ UNCHANGED procVars
  \/ \E authHeader \in RaceHeaders, filename \in Filenames,
        hasBlob \in HasBlobInputs, refused \in SUBSET {"asset", "preview"} :
       /\ ExtInit(authHeader, filename, "image/png", <<5>>, "meta", Undefined,
                  hasBlob, "asset" \notin refused, "preview" \notin refused)
       /\ UNCHANGED procVars
  \/ \E user \in {"A"}, id \in Named(nextAssetId) :
       /\ DeleteAsset(user, id, TRUE, TRUE)
       /\ UNCHANGED procVars

InitSpec == Init /\ [][InitNext]_vars

\* C26: an init call (web, or extension) that answers with an error leaves the
\* asset table as it was: no row of the call remains.
InitAllOrNothing ==
  [][(last'.op \in {"init-upload", "ext-init"} /\ last'.status # 200) =>
       assets' = assets]_vars

\* ------------------------------------------------- finalize frame
\* an upload of user A with a size recorded at init and notes set by PATCH,
\* finalized on either route with bodies that omit fields
FrameNext ==
  \/ \E user \in {"A"} :
       /\ InitUpload(user, "ad.png", "image/png", <<5>>, "", TRUE, TRUE)
       /\ UNCHANGED procVars
  \/ \E user \in {"A"}, id \in DOMAIN assets :
       /\ PatchAsset(user, id, <<"seen on feed">>, "", Undefined)
       /\ UNCHANGED procVars
  \/ \E user \in {"A"} :
       /\ nextTokenId = 1
       /\ CreateToken(user, <<"a">>)
       /\ UNCHANGED procVars
  \/ \E user \in Sessions, assetId \in AssetIdInputs, b \in WebBodies :
       /\ FinalizeUpload(user, assetId, b.width, b.height, Undefined,
                         Undefined, b.sizeBytes, b.notes)
       /\ UNCHANGED procVars
  \/ \E authHeader \in RaceHeaders, assetId \in AssetIdInputs,
        d \in {<<Undefined, Undefined>>, <<<<640>>, <<480>>>>} :
       /\ ExtFinalize(authHeader, assetId, d[1], d[2], Undefined, Undefined,
                      Undefined)
       /\ UNCHANGED procVars

FrameSpec == Init /\ [][FrameNext]_vars

\* the value a finalize leaves in a column: the one the body gives, and the
\* stored one when the body omits the field
Kept(given, stored, new) == IF given = Undefined THEN new = stored ELSE TRUE

\* C30: a finalize answered 200 leaves the row 'ready'; every metadata field
\* its body omits (and size and notes always on the extension route) keeps the
\* value stored before; owner, capture method, file name, mime type and the
\* storage pointers are unchanged; no other row changes.
FinalizeFrame ==
  [][(last'.op \in {"finalize-upload", "ext-finalize"} /\ last'.status = 200) =>
       LET a == last'.id[1]
           old == assets[a]
           new == assets'[a]
           web == last'.op = "finalize-upload"
       IN /\ new.status = "ready"
          /\ Kept(last'.args.width, old.width, new.width)
          /\ Kept(last'.args.height, old.height, new.height)
          /\ Kept(last'.args.durationSeconds, old.durationSeconds,
                  new.durationSeconds)
          /\ Kept(last'.args.sha256, old.sha256, new.sha256)
          /\ Kept(IF web THEN last'.args.sizeBytes ELSE Undefined,
                  old.sizeBytes, new.sizeBytes)
          /\ Kept(IF web THEN last'.args.notes ELSE Undefined,
                  old.notes, new.notes)
          /\ new.ownerId = old.ownerId
          /\ new.captureMethod = old.captureMethod
          /\ new.originalFilename = old.originalFilename
          /\ new.mimeType = old.mimeType
          /\ new.storageBucket = old.storageBucket
          /\ new.storagePath = old.storagePath
          /\ new.previewBucket = old.previewBucket
          /\ new.previewPath = old.previewPath
          /\ \A x \in DOMAIN assets \ {a} : assets'[x] = assets[x]]_vars

\* ------------------------------------------------- pagination
\* C24: in a list response, totalCount is the number of the caller's ready
\* assets that hold every requested tag id (the only filter these requests
\* supply), totalPages is ceil(totalCount / limit), and hasMore says whether
\* such assets exist beyond the page.
PaginationConsistent ==
  (last.op = "list-assets" /\ last.status = 200) =>
    LET n == Cardinality(Qualifying(last))
        p == last.body.pagination
    IN /\ p.totalCount = n
       /\ p.totalPages = (n + p.limit - 1) \div p.limit
       /\ p.hasMore = (p.page * p.limit < n)

\* ------------------------------------------------- duplicate links
\* C25: each (asset, tag) pair occurs at most once among the asset_tags rows,
\* and the tag list of a GET /api/assets/:id answer holds each tag at most
\* once.
NoDuplicateLinks ==
  /\ \A r \in DOMAIN assetTags : assetTags[r] <= 1
  /\ (last.op = "get-asset" /\ last.status = 200) =>
       \A r \in DOMAIN last.body.tags : last.body.tags[r] <= 1

\* ------------------------------------------------- PATCH and DELETE, step by step
\* PATCH /api/assets/:id awaits the authentication, the UPDATE, the DELETE of
\* the asset's links and the INSERT of the new ones; DELETE /api/assets/:id
\* awaits the authentication, the SELECT of the row, the storage removals, the
\* DELETE of the links and the DELETE of the row.  None of them runs in a
\* transaction, so each statement is a step.  A request that reached its
\* first statement keeps its slot when answered.

RequestReply(r, status, body) ==
  Reply(IF r.route = "patch" THEN "patch-asset" ELSE "delete-asset", r.caller,
        <<r.id>>, IF r.tagIds = Undefined THEN <<>> ELSE r.tagIds[1], status,
        body)

\* either handler up to its first statement: authenticate, read the body
BeginRequest(c, route, user, id, tagIds) ==
  LET r == [IdleRequest EXCEPT !.route = route, !.caller = user, !.id = id,
                               !.tagIds = tagIds]
  IN
  /\ inflight[c].pc = "idle"
  /\ IF user = NoUser
     THEN /\ last' = RequestReply(r, 401, <<>>)
          /\ inflight' = inflight
     ELSE /\ last' = last
          /\ inflight' = [inflight EXCEPT ![c] = [r EXCEPT !.pc = "first"]]
  /\ UNCHANGED <<dbVars, finalizing, uploader, captures, popup>>

\* the first statement: PATCH's UPDATE ... RETURNING (a body with tagIds only
\* sets updatedAt), DELETE's SELECT; without a row the answer is 404
FirstStatement(c) ==
  LET r == inflight[c]
      found == OwnedAsset(r.caller, <<r.id>>)
  IN
  /\ r.pc = "first"
  /\ inflight' = [inflight EXCEPT ![c] =
       IF ~found THEN [r EXCEPT !.pc = "notfound"]
       ELSE [r EXCEPT !.row = <<assets[r.id]>>,
                      !.pc = IF r.route = "delete" THEN "files"
                             ELSE IF r.tagIds # Undefined THEN "unlink"
                             ELSE "respond"]]
  /\ UNCHANGED <<dbVars, last, finalizing, uploader, captures, popup>>

\* DELETE's two deleteFile calls, each in its own try
RemoveFiles(c, okAsset, okPreview) ==
  LET r == inflight[c]
      calls == DeleteCalls(r.row[1], okAsset, okPreview)
  IN
  /\ r.pc = "files"
  /\ storage' = storage \ {<<calls[i].bucket, calls[i].path>> :
                             i \in {j \in DOMAIN calls : calls[j].ok}}
  /\ inflight' = [inflight EXCEPT ![c] =
       [r EXCEPT !.storageCalls = calls, !.pc = "unlink"]]
  /\ UNCHANGED <<assets, assetTags, tags, personalAccessTokens, nextAssetId,
                 nextTagId, nextTokenId, now, last, finalizing, uploader,
                 captures, popup>>

\* db.delete(assetTags).where(eq(assetTags.assetId, id)), in both handlers
Unlink(c) ==
  LET r == inflight[c]
  IN
  /\ r.pc = "unlink"
  /\ assetTags' = KeepLinks(assetTags,
                            {x \in DOMAIN assetTags : x.assetId # r.id})
  /\ inflight' = [inflight EXCEPT ![c] =
       [r EXCEPT !.pc = IF r.route = "delete" THEN "remove"
                        ELSE IF r.tagIds[1] # <<>> THEN "link"
                        ELSE "respond"]]
  /\ UNCHANGED <<assets, tags, personalAccessTokens, storage, nextAssetId,
                 nextTagId, nextTokenId, now, last, finalizing, uploader,
                 captures, popup>>

\* PATCH's INSERT of the new links; a refused INSERT throws (500)
Link(c) ==
  LET r == inflight[c]
      ok == ForeignKeyHolds(r.id)
  IN
  /\ r.pc = "link"
  /\ assetTags' = IF ok THEN assetTags (+) RowsBag(LinkRows(r.id, r.tagIds[1]))
                  ELSE assetTags
  /\ \A x \in DOMAIN assetTags' : assetTags'[x] <= MaxLinkCopies
  /\ inflight' = [inflight EXCEPT ![c] =
       [r EXCEPT !.pc = IF ok THEN "respond" ELSE "error"]]
  /\ UNCHANGED <<assets, tags, personalAccessTokens, storage, nextAssetId,
                 nextTagId, nextTokenId, now, last, finalizing, uploader,
                 captures, popup>>

\* DELETE's db.delete(assets).where(eq(assets.id, id)); the links of the row
\* go with it (onDelete: 'cascade')
RemoveRow(c) ==
  LET r == inflight[c]
  IN
  /\ r.pc = "remove"
  /\ assets' = IF r.id \in DOMAIN assets THEN Without(assets, r.id) ELSE assets
  /\ assetTags' = KeepLinks(assetTags,
                            {x \in DOMAIN assetTags : x.assetId # r.id})
  /\ inflight' = [inflight EXCEPT ![c] = [r EXCEPT !.pc = "respond"]]
  /\ UNCHANGED <<tags, personalAccessTokens, storage, nextAssetId, nextTagId,
                 nextTokenId, now, last, finalizing, uploader, captures, popup>>

\* the answer of request c
Respond(c) ==
  LET r == inflight[c]
  IN
  /\ r.pc \in {"respond", "notfound", "error"}
  /\ last' = IF r.pc = "notfound" THEN RequestReply(r, 404, <<>>)
             ELSE IF r.pc = "error" THEN RequestReply(r, 500, <<>>)
             ELSE IF r.route = "patch"
             THEN RequestReply(r, 200, [asset |-> r.row[1]])
             ELSE RequestReply(r, 200, [success |-> TRUE,
                                        storageCalls |-> r.storageCalls])
  /\ inflight' = [inflight EXCEPT ![c] =
       IF r.pc = "notfound" THEN IdleRequest
       ELSE [r EXCEPT !.pc = IF r.pc = "error" THEN "failed" ELSE "done"]]
  /\ UNCHANGED <<dbVars, finalizing, uploader, captures, popup>>

\* the tagIds arrays of these requests
ReplacementArrays == {<<>>, <<1>>, <<2>>, <<1, 2>>}

\* one asset of user A and PATCH requests with tagIds on it, served
\* concurrently
PatchRaceNext ==
  \/ \E user \in {"A"} :
       /\ nextAssetId = 1
       /\ InitUpload(user, "ad.png", "image/png", Undefined, "", TRUE, TRUE)
       /\ UNCHANGED procVars
  \/ \E c \in 1 .. MaxCalls, user \in Sessions, id \in Named(nextAssetId),
        tagIds \in ReplacementArrays :
       BeginRequest(c, "patch", user, id, <<tagIds>>)
  \/ \E c \in 1 .. MaxCalls : FirstStatement(c)
  \/ \E c \in 1 .. MaxCalls : Unlink(c)
  \/ \E c \in 1 .. MaxCalls : Link(c)
  \/ \E c \in 1 .. MaxCalls : Respond(c)

PatchRaceSpec == Init /\ [][PatchRaceNext]_vars

\* the tag ids asset a is linked to, and those of an array
LinkedTo(a) == {x.tagId : x \in {y \in DOMAIN assetTags : y.assetId = a}}
Elements(ids) == {ids[i] : i \in DOMAIN ids}

\* C23: when the only two PATCH requests with tagIds on an asset have both
\* been answered 200, the asset's links are exactly those of one of the two
\* bodies.
ReplacementIsSerial ==
  \A c, d \in DOMAIN inflight :
    (/\ c # d
     /\ inflight[c].pc = "done" /\ inflight[d].pc = "done"
     /\ inflight[c].route = "patch" /\ inflight[d].route = "patch"
     /\ inflight[c].id = inflight[d].id
     /\ \A e \in DOMAIN inflight \ {c, d} : inflight[e].pc = "idle") =>
      \/ LinkedTo(inflight[c].id) = Elements(inflight[c].tagIds[1])
      \/ LinkedTo(inflight[c].id) = Elements(inflight[d].tagIds[1])

\* one asset of user A, and DELETE, PATCH with tagIds and extension finalize
\* with tagIds on it, served concurrently
DeleteRaceNext ==
  \/ \E user \in {"A"} :
       /\ nextAssetId = 1
       /\ InitUpload(user, "ad.png", "image/png", Undefined, "", TRUE, TRUE)
       /\ UNCHANGED procVars
  \/ \E user \in {"A"} :
       /\ nextTokenId = 1
       /\ CreateToken(user, <<"a">>)
       /\ UNCHANGED procVars
  \/ \E c \in 1 .. MaxCalls, user \in {"A"}, id \in DOMAIN assets :
       BeginRequest(c, "patch", user, id, <<<<1>>>>)
  \/ \E c \in 1 .. MaxCalls, user \in Sessions, id \in DOMAIN assets :
       BeginRequest(c, "delete", user, id, Undefined)
  \/ \E c \in 1 .. MaxCalls : FirstStatement(c)
  \/ \E c \in 1 .. MaxCalls, okAsset \in BOOLEAN : RemoveFiles(c, okAsset, TRUE)
  \/ \E c \in 1 .. MaxCalls : Unlink(c)
  \/ \E c \in 1 .. MaxCalls : Link(c)
  \/ \E c \in 1 .. MaxCalls : RemoveRow(c)
  \/ \E c \in 1 .. MaxCalls : Respond(c)
  \/ \E c \in 1 .. MaxCalls, authHeader \in RaceHeaders, id \in DOMAIN assets :
       BeginFinalize(c, "ext", NoUser, authHeader, <<id>>, <<640>>, <<480>>,
                     Undefined, Undefined, <<<<2>>>>)
  \/ \E c \in 1 .. MaxCalls : ApplyFinalize(c)
  \/ \E c \in 1 .. MaxCalls : LinkFinalize(c)
  \/ \E c \in 1 .. MaxCalls : RespondFinalize(c)

DeleteRaceSpec == Init /\ [][DeleteRaceNext]_vars

\* the DELETE requests whose row removal has run
Deleted ==
  {inflight[c].id : c \in {d \in DOMAIN inflight :
      inflight[d].route = "delete" /\ inflight[d].pc \in {"respond", "done"}}}

\* C27: every asset_tags row names an asset row that exists, and once the
\* DELETE of an asset has removed its row, the asset and every link with its
\* id are gone, whatever PATCH and extension finalize requests on it are
\* still running.
NoLinkToMissingAsset ==
  /\ \A x \in DOMAIN assetTags : x.assetId \in DOMAIN assets
  /\ \A a \in Deleted :
       /\ a \notin DOMAIN assets
       /\ \A x \in DOMAIN assetTags : x.assetId # a

\* C27 witness: the DELETE of an asset was answered 200 while a PATCH and an
\* extension finalize on it had passed their UPDATE; both then had their
\* INSERT of links refused and answered 500
LinksRefusedAfterDelete ==
  /\ last.status = 500
  /\ \E c, d \in DOMAIN inflight, e \in DOMAIN finalizing :
       /\ inflight[c].route = "delete" /\ inflight[c].pc = "done"
       /\ inflight[d].route = "patch" /\ inflight[d].pc = "failed"
       /\ inflight[d].id = inflight[c].id
       /\ finalizing[e].pc = "failed"
       /\ finalizing[e].assetId = <<inflight[c].id>>

\* ---- source platform detection ----
\* text is written as the sequence of its characters

\* the built-in platforms of the web application, in table order
DEFAULT_SOURCES ==
  <<
    [key |-> "facebook",
     domainPatterns |-> <<<<"f", "a", "c", "e", "b", "o", "o", "k", ".", "c", "o", "m">>,
                       <<"f", "b", ".", "c", "o", "m">>,
                       <<"f", "b", ".", "m", "e">>>>],
    [key |-> "instagram",
     domainPatterns |-> <<<<"i", "n", "s", "t", "a", "g", "r", "a", "m", ".", "c", "o", "m">>,
                       <<"i", "n", "s", "t", "a", "g", "r", ".", "a", "m">>>>],
    [key |-> "tiktok",
     domainPatterns |-> <<<<"t", "i", "k", "t", "o", "k", ".", "c", "o", "m">>,
                       <<"v", "m", ".", "t", "i", "k", "t", "o", "k", ".", "c", "o", "m">>>>],
    [key |-> "youtube",
     domainPatterns |-> <<<<"y", "o", "u", "t", "u", "b", "e", ".", "c", "o", "m">>,
                       <<"y", "o", "u", "t", "u", ".", "b", "e">>>>],
    [key |-> "twitter",
     domainPatterns |-> <<<<"t", "w", "i", "t", "t", "e", "r", ".", "c", "o", "m">>,
                       <<"x", ".", "c", "o", "m">>,
                       <<"t", ".", "c", "o">>>>],
    [key |-> "linkedin",
     domainPatterns |-> <<<<"l", "i", "n", "k", "e", "d", "i", "n", ".", "c", "o", "m">>>>],
    [key |-> "pinterest",
     domainPatterns |-> <<<<"p", "i", "n", "t", "e", "r", "e", "s", "t", ".", "c", "o", "m">>,
                       <<"p", "i", "n", ".", "i", "t">>>>],
    [key |-> "snapchat",
     domainPatterns |-> <<<<"s", "n", "a", "p", "c", "h", "a", "t", ".", "c", "o", "m">>>>],
    [key |-> "other",
     domainPatterns |-> <<>>]
  >>

\* the platforms of the extension, in table order
SOURCE_PATTERNS ==
  <<
    [key |-> "facebook",
     patterns |-> <<<<"f", "a", "c", "e", "b", "o", "o", "k", ".", "c", "o", "m">>,
                 <<"f", "b", ".", "c", "o", "m">>,
                 <<"f", "b", ".", "m", "e">>>>],
    [key |-> "instagram",
     patterns |-> <<<<"i", "n", "s", "t", "a", "g", "r", "a", "m", ".", "c", "o", "m">>,
                 <<"i", "n", "s", "t", "a", "g", "r", ".", "a", "m">>>>],
    [key |-> "tiktok",
     patterns |-> <<<<"t", "i", "k", "t", "o", "k", ".", "c", "o", "m">>,
                 <<"v", "m", ".", "t", "i", "k", "t", "o", "k", ".", "c", "o", "m">>>>],
    [key |-> "youtube",
     patterns |-> <<<<"y", "o", "u", "t", "u", "b", "e", ".", "c", "o", "m">>,
                 <<"y", "o", "u", "t", "u", ".", "b", "e">>>>],
    [key |-> "twitter",
     patterns |-> <<<<"t", "w", "i", "t", "t", "e", "r", ".", "c", "o", "m">>,
                 <<"x", ".", "c", "o", "m">>,
                 <<"t", ".", "c", "o">>>>],
    [key |-> "linkedin",
     patterns |-> <<<<"l", "i", "n", "k", "e", "d", "i", "n", ".", "c", "o", "m">>>>],
    [key |-> "pinterest",
     patterns |-> <<<<"p", "i", "n", "t", "e", "r", "e", "s", "t", ".", "c", "o", "m">>,
                 <<"p", "i", "n", ".", "i", "t">>>>],
    [key |-> "snapchat",
     patterns |-> <<<<"s", "n", "a", "p", "c", "h", "a", "t", ".", "c", "o", "m">>>>]
  >>

\* the lower-case letter of every capital letter
LowerCase ==
  "A" :> "a" @@ "B" :> "b" @@ "C" :> "c" @@ "D" :> "d" @@ "E" :> "e" @@
  "F" :> "f" @@ "G" :> "g" @@ "H" :> "h" @@ "I" :> "i" @@ "J" :> "j" @@
  "K" :> "k" @@ "L" :> "l" @@ "M" :> "m" @@ "N" :> "n" @@ "O" :> "o" @@
  "P" :> "p" @@ "Q" :> "q" @@ "R" :> "r" @@ "S" :> "s" @@ "T" :> "t" @@
  "U" :> "u" @@ "V" :> "v" @@ "W" :> "w" @@ "X" :> "x" @@ "Y" :> "y" @@
  "Z" :> "z"
\* String.prototype.toLowerCase, from character i on
RECURSIVE LowerFrom(_, _)
LowerFrom(text, i) ==
  IF i > Len(text) THEN <<>>
  ELSE <<IF text[i] \in DOMAIN LowerCase THEN LowerCase[text[i]] ELSE text[i]>>
         \o LowerFrom(text, i + 1)
toLowerCase(text) == LowerFrom(text, 1)
\* String.prototype.includes: part occurs in text, case as written
includes(text, part) ==
  \E i \in 0 .. Len(text) - Len(part) :
     \A j \in 1 .. Len(part) : text[i + j] = part[j]

\* new URL(url).hostname: a url without a scheme is not a URL (the constructor
\* throws, Null here); the host of an http(s) URL is given in lower case
Hostname(url) ==
  IF url.protocol = "" \/ url.host = <<>> THEN Null
  ELSE <<toLowerCase(url.host)>>

\* the patterns of one row of either table
PatternsOf(source) ==
  IF "domainPatterns" \in DOMAIN source THEN source.domainPatterns
  ELSE source.patterns
\* the key of the first row from position i on with a pattern that the host
\* name includes; 'other' without one
RECURSIVE FirstSource(_, _, _)
FirstSource(table, hostname, i) ==
  IF i > Len(table) THEN "other"
  ELSE IF \E p \in 1 .. Len(PatternsOf(table[i])) :
             includes(hostname, PatternsOf(table[i])[p])
       THEN table[i].key
       ELSE FirstSource(table, hostname, i + 1)
\* detectSourceFromUrl of the web application (where = "web") and of the
\* extension (where = "extension")
detectSourceFromUrl(where, url) ==
  LET table == IF where = "web" THEN DEFAULT_SOURCES ELSE SOURCE_PATTERNS
  IN IF Hostname(url) = Null THEN "other"
     ELSE CHOOSE key \in {FirstSource(table, hostname, 1) :
                            hostname \in {toLowerCase(Hostname(url)[1])}} : TRUE

\* one call of detectSourceFromUrl; the url and the answer are kept in last
DetectSource(where, url) ==
  /\ last' = [op |-> "detect-source", caller |-> NoUser, auth |-> Undefined,
              id |-> Undefined, tagIds |-> <<>>,
              args |-> [where |-> where, url |-> url], status |-> 0,
              body |-> detectSourceFromUrl(where, url)]
  /\ UNCHANGED <<assets, assetTags, tags, personalAccessTokens, storage,
                 nextAssetId, nextTagId, nextTokenId, now>>
  /\ UNCHANGED procVars

\* the domains a table lists
ListedDomains(table) ==
  UNION {{PatternsOf(table[i])[p] : p \in DOMAIN PatternsOf(table[i])} :
           i \in DOMAIN table}
\* the urls tried: every listed domain as the host, bare and below www., two
\* hosts of no platform, a host in capitals and no host; with and without a
\* scheme; with a path that names a platform
DetectHosts ==
  ListedDomains(DEFAULT_SOURCES)
    \cup {<<"w", "w", "w", ".">> \o d : d \in ListedDomains(SOURCE_PATTERNS)}
    \cup {<<"e", "x", "a", "m", "p", "l", "e", ".", "o", "r", "g">>,
          <<"F", "B", ".", "M", "E">>, <<"f", "b", ".", "o", "r", "g">>, <<>>}
DetectUrls ==
  [protocol : {"https:", ""}, host : DetectHosts,
   pathname : {<<"/">>, <<"/", "f", "b", ".", "m", "e">>}]

SourceNext ==
  \E where \in {"web", "extension"}, url \in DetectUrls :
     DetectSource(where, url)

SourceSpec == Init /\ [][SourceNext]_vars

\* C21: a url whose host name is a domain listed for a platform is detected
\* as that platform, by the web application and by the extension; a url whose
\* host name includes no listed domain, and a text that is not a URL, are
\* detected as 'other'.
SourceDetection ==
  last.op = "detect-source" =>
    LET table == IF last.args.where = "web" THEN DEFAULT_SOURCES
                 ELSE SOURCE_PATTERNS
        host == Hostname(last.args.url)
    IN /\ host # Null =>
            \A i \in DOMAIN table : \A p \in DOMAIN PatternsOf(table[i]) :
               host[1] = PatternsOf(table[i])[p] => last.body = table[i].key
       /\ (\/ host = Null
           \/ \A d \in ListedDomains(table) : ~includes(host[1], d))
            => last.body = "other"

\* ---- content script: scan of a page for media candidates ----
\* a url is its scheme and the rest; NoUrl is the empty string
NoUrl == [scheme |-> "", rest |-> ""]
UrlA == [scheme |-> "https:", rest |-> "a"]
UrlB == [scheme |-> "https:", rest |-> "b"]
DataUrl == [scheme |-> "data:", rest |-> "x"]
BlobUrl == [scheme |-> "blob:", rest |-> "x"]
\* url.startsWith('data:'), url.startsWith('blob:')
startsWith(url, scheme) == url.scheme = scheme

SeenNothing(seenUrls, url) == FALSE
\* seenUrls.has(url)
Seen(seenUrls, url) == url \in seenUrls

\* candidates.push(..) after seenUrls.add(url); of the id, the prefix and the
\* index are kept (the time and the random part are left out)
Push(st, prefix, index, type, url) ==
  [candidates |-> Append(st.candidates,
                         [id |-> <<prefix, index>>, type |-> type, url |-> url]),
   seenUrls |-> st.seenUrls \cup {url}]

\* scanImages from image i on; src is currentSrc || src
RECURSIVE scanImages(_, _, _, _)
scanImages(st, images, i, imageIndex) ==
  IF i > Len(images) THEN st
  ELSE LET img == images[i]
           url == img.src
       IN IF url = NoUrl \/ startsWith(url, "data:") \/ Seen(st.seenUrls, url)
          THEN scanImages(st, images, i + 1, imageIndex)
          ELSE IF img.naturalWidth < 100 \/ img.naturalHeight < 100
          THEN scanImages(st, images, i + 1, imageIndex)
          ELSE scanImages(Push(st, "img", imageIndex, "image", url), images,
                          i + 1, imageIndex + 1)

\* scanBackgroundImages from element i on; an element's backgroundImage is
\* the url its url(..) names, or Null when the style names none
RECURSIVE scanBackgroundImages(_, _, _, _)
scanBackgroundImages(st, elementsWithBg, i, bgIndex) ==
  IF i > Len(elementsWithBg) THEN st
  ELSE LET match == elementsWithBg[i]
       IN IF match = Null
          THEN scanBackgroundImages(st, elementsWithBg, i + 1, bgIndex)
          ELSE IF startsWith(match[1], "data:") \/ Seen(st.seenUrls, match[1])
          THEN scanBackgroundImages(st, elementsWithBg, i + 1, bgIndex)
          ELSE scanBackgroundImages(Push(st, "bg", bgIndex, "image", match[1]),
                                    elementsWithBg, i + 1, bgIndex + 1)

\* src is currentSrc || src, source the src of the first <source> child
getVideoUrl(video) == IF video.src # NoUrl THEN video.src ELSE video.source
handleBlobVideo(st, video, videoIndex) ==
  IF video.poster # NoUrl /\ ~Seen(st.seenUrls, video.poster)
  THEN Push(st, "video-poster", videoIndex, "image", video.poster)
  ELSE st
\* scanVideos from video i on (videoIndex is i - 1 throughout)
RECURSIVE scanVideos(_, _, _)
scanVideos(st, videos, i) ==
  IF i > Len(videos) THEN st
  ELSE LET video == videos[i]
           url == getVideoUrl(video)
       IN IF url = NoUrl \/ startsWith(url, "blob:") \/ startsWith(url, "data:")
          THEN IF startsWith(video.src, "blob:")
               THEN scanVideos(handleBlobVideo(st, video, i - 1), videos, i + 1)
               ELSE scanVideos(st, videos, i + 1)
          ELSE IF Seen(st.seenUrls, url) THEN scanVideos(st, videos, i + 1)
          ELSE scanVideos(Push(st, "video", i - 1, "video", url), videos, i + 1)

\* the matches of one regular expression in one script, from match i on; a
\* match is <<url>>, or Null when JSON.parse of it throws. The answer says
\* whether a parse threw.
RECURSIVE scanMatches(_, _, _, _, _, _)
scanMatches(st, matches, i, prefix, type, skipBlob) ==
  IF i > Len(matches) THEN [st |-> st, threw |-> FALSE]
  ELSE IF matches[i] = Null
       THEN IF skipBlob
            THEN scanMatches(st, matches, i + 1, prefix, type, skipBlob)
            ELSE [st |-> st, threw |-> TRUE]
  ELSE LET url == matches[i][1]
       IN IF Seen(st.seenUrls, url) \/ (skipBlob /\ startsWith(url, "blob:"))
          THEN scanMatches(st, matches, i + 1, prefix, type, skipBlob)
          ELSE scanMatches(Push(st, prefix, 0, type, url), matches, i + 1,
                           prefix, type, skipBlob)

\* scanInstagramMedia from script i on: the video_url matches of a script,
\* then its display_url matches; a parse that throws ends the whole scan
RECURSIVE scanInstagramMedia(_, _, _)
scanInstagramMedia(st, scripts, i) ==
  IF i > Len(scripts) THEN st
  ELSE LET v == scanMatches(st, scripts[i].video_url, 1, "ig-video", "video",
                            FALSE)
           d == scanMatches(v.st, scripts[i].display_url, 1, "ig-image",
                            "image", FALSE)
       IN IF v.threw THEN v.st
          ELSE IF d.threw THEN d.st
          ELSE scanInstagramMedia(d.st, scripts, i + 1)

\* scanTikTokMedia from script i on: a match whose parse throws is skipped
RECURSIVE scanTikTokMedia(_, _, _)
scanTikTokMedia(st, scripts, i) ==
  IF i > Len(scripts) THEN st
  ELSE scanTikTokMedia(
         scanMatches(st, scripts[i].playAddr, 1, "tt-video", "video", TRUE).st,
         scripts, i + 1)

InstagramCom == <<"i", "n", "s", "t", "a", "g", "r", "a", "m", ".", "c", "o", "m">>
TikTokCom == <<"t", "i", "k", "t", "o", "k", ".", "c", "o", "m">>
scanPlatformSpecificMedia(st, page) ==
  LET ig == IF includes(page.hostname, InstagramCom)
            THEN scanInstagramMedia(st, page.scripts, 1) ELSE st
  IN IF includes(page.hostname, TikTokCom)
     THEN scanTikTokMedia(ig, page.scripts, 1) ELSE ig

\* getCandidates: the four passes over one list and one set of seen urls
getCandidates(page) ==
  LET st0 == [candidates |-> <<>>, seenUrls |-> {}]
      st1 == scanImages(st0, page.images, 1, 0)
      st2 == scanBackgroundImages(st1, page.elementsWithBg, 1, 0)
      st3 == scanVideos(st2, page.videos, 1)
      st4 == scanPlatformSpecificMedia(st3, page)
  IN [candidates |-> st4.candidates,
      pageContext |-> [sourcePlatform |->
         detectSourceFromUrl("extension",
            [protocol |-> "https:", host |-> page.hostname,
             pathname |-> <<"/">>])]]

\* the content script answers GET_CANDIDATES for the page it runs in
GetCandidates(page) ==
  /\ last' = [op |-> "get-candidates", caller |-> NoUser, auth |-> Undefined,
              id |-> Undefined, tagIds |-> <<>>, args |-> page, status |-> 0,
              body |-> getCandidates(page)]
  /\ UNCHANGED <<assets, assetTags, tags, personalAccessTokens, storage,
                 nextAssetId, nextTagId, nextTokenId, now>>
  /\ UNCHANGED procVars

\* sequences of at most n elements of S
SeqUpTo(S, n) == UNION {[1 .. k -> S] : k \in 0 .. n}
\* the pages scanned: at most MaxElements images, elements with a background
\* image and videos, and one script with at most MaxMatches matches of each
\* expression on the host that scans it
PageImages ==
  SeqUpTo({[src |-> UrlA, naturalWidth |-> 200, naturalHeight |-> 200],
           [src |-> UrlB, naturalWidth |-> 200, naturalHeight |-> 200],
           [src |-> UrlA, naturalWidth |-> 50, naturalHeight |-> 200],
           [src |-> DataUrl, naturalWidth |-> 200, naturalHeight |-> 200]},
          MaxElements)
PageBackgrounds == SeqUpTo({Null, <<UrlA>>, <<UrlB>>}, MaxElements)
PageVideos ==
  SeqUpTo({[src |-> UrlA, source |-> NoUrl, poster |-> UrlB],
           [src |-> BlobUrl, source |-> NoUrl, poster |-> UrlA],
           [src |-> NoUrl, source |-> BlobUrl, poster |-> UrlA],
           [src |-> NoUrl, source |-> UrlB, poster |-> NoUrl],
           [src |-> NoUrl, source |-> NoUrl, poster |-> NoUrl]},
          MaxElements)
NoMatches == [video_url |-> <<>>, display_url |-> <<>>, playAddr |-> <<>>]
PageHosts ==
  {[hostname |-> <<"w", "w", "w", ".">> \o InstagramCom,
    scripts |-> <<[NoMatches EXCEPT !.video_url = v, !.display_url = d]>>] :
       v \in SeqUpTo({<<UrlA>>, Null}, MaxMatches),
       d \in SeqUpTo({<<UrlA>>, <<UrlB>>}, MaxMatches)}
    \cup {[hostname |-> <<"w", "w", "w", ".">> \o TikTokCom,
           scripts |-> <<[NoMatches EXCEPT !.playAddr = t]>>] :
            t \in SeqUpTo({<<UrlA>>, <<BlobUrl>>, Null}, MaxMatches)}
    \cup {[hostname |-> <<"e", "x", "a", "m", "p", "l", "e", ".", "o", "r", "g">>,
           scripts |-> <<>>]}

ScanNext ==
  /\ last.op = "none"
  /\ \E images \in PageImages, elementsWithBg \in PageBackgrounds,
        videos \in PageVideos, host \in PageHosts :
     GetCandidates([hostname |-> host.hostname, scripts |-> host.scripts,
                    images |-> images, elementsWithBg |-> elementsWithBg,
                    videos |-> videos])

ScanSpec == Init /\ [][ScanNext]_vars

\* the positions of the candidate list that hold url
PositionsOf(url) ==
  {i \in DOMAIN last.body.candidates : last.body.candidates[i].url = url}

\* C22: the candidate list one scan returns never holds the same url twice,
\* whichever of the passes (images, background images, videos and their
\* posters, the Instagram and TikTok scripts) found it.
CandidatesDistinct ==
  last.op = "get-candidates" =>
    \A i, j \in DOMAIN last.body.candidates :
       last.body.candidates[i].url = last.body.candidates[j].url => i = j

\* C22 witness: a page of instagram.com that shows one url as an image, as a
\* background image, as the poster of a blob video and as a display_url of
\* its script; the list holds it once
OneUrlFoundByEveryPass ==
  /\ last.op = "get-candidates"
  /\ \E i \in DOMAIN last.args.images :
        /\ last.args.images[i].src = UrlA
        /\ last.args.images[i].naturalWidth >= 100
  /\ \E i \in DOMAIN last.args.elementsWithBg :
        last.args.elementsWithBg[i] = <<UrlA>>
  /\ \E i \in DOMAIN last.args.videos :
        /\ last.args.videos[i].src = BlobUrl
        /\ last.args.videos[i].poster = UrlA
  /\ \E i \in DOMAIN last.args.scripts :
        last.args.scripts[i].display_url = <<<<UrlA>>>>
  /\ includes(last.args.hostname, InstagramCom)
  /\ Cardinality(PositionsOf(UrlA)) = 1

\* ---------------------------------------------------- the extension popup
\* candidate k of the page is shown as card k; the popup stays open.

\* a click on card k
ToggleSelected(k) ==
  /\ popup' = [popup EXCEPT !.candidates[k].selected = ~@]
  /\ UNCHANGED <<dbVars, last, finalizing, uploader, captures, inflight>>

\* the candidates that are selected and idle, in list order from k on
RECURSIVE SelectedIdle(_)
SelectedIdle(k) ==
  IF k > MaxCaptures THEN <<>>
  ELSE (IF popup.candidates[k].selected /\ popup.candidates[k].status = "idle"
        THEN <<k>> ELSE <<>>) \o SelectedIdle(k + 1)

\* captureSelected up to its first await: the button is enabled while a
\* selected idle candidate exists; every such candidate becomes 'uploading'
\* (one run of captureSelected at a time)
CaptureSelected ==
  /\ popup.toCapture = <<>>
  /\ SelectedIdle(1) # <<>>
  /\ popup' = [popup EXCEPT
       !.toCapture = SelectedIdle(1),
       !.candidates = [k \in DOMAIN @ |->
          IF popup.candidates[k].selected /\ popup.candidates[k].status = "idle"
          THEN [@[k] EXCEPT !.status = "uploading"] ELSE @[k]]]
  /\ UNCHANGED <<dbVars, last, finalizing, uploader, captures, inflight>>

\* the loop sends CAPTURE_MEDIA for the next candidate and awaits the
\* response: the worker's listener starts handleCaptureMedia, or sendMessage
\* rejects (no listener answered) and the catch marks the candidate 'error'
SendCaptureMedia(delivered, accessToken, blob, type) ==
  LET k == Head(popup.toCapture)
  IN
  /\ popup.toCapture # <<>>
  /\ popup.awaiting = 0
  /\ captures[k].pc = "idle"
  /\ IF delivered
     THEN /\ captures' = [captures EXCEPT ![k] =
               handleCaptureMedia(@, accessToken, blob, type, Undefined)]
          /\ popup' = [popup EXCEPT !.awaiting = k]
     ELSE /\ popup' = [popup EXCEPT !.candidates[k].status = "error",
                                    !.toCapture = Tail(@)]
          /\ UNCHANGED captures
  /\ UNCHANGED <<dbVars, last, finalizing, uploader, inflight>>

\* the worker's run resolved or threw and its listener called sendResponse:
\* the popup's await returns the response, which the loop does not look at
CaptureResponse ==
  /\ popup.awaiting # 0
  /\ captures[popup.awaiting].pc \in {"done", "failed"}
  /\ popup' = [popup EXCEPT !.awaiting = 0, !.toCapture = Tail(@)]
  /\ UNCHANGED <<dbVars, last, finalizing, uploader, captures, inflight>>

\* the popup's onMessage listener takes a message of the worker
OnMessage(message) ==
  /\ message \in popup.inbox
  /\ popup' = [popup EXCEPT
       !.inbox = @ \ {message},
       !.candidates[message.candidateId].status =
          IF message.type = "UPLOAD_COMPLETE" THEN "complete"
          ELSE IF message.type = "UPLOAD_ERROR" THEN "error"
          ELSE @]
  /\ UNCHANGED <<dbVars, last, finalizing, uploader, captures, inflight>>

\* the worker's steps
WorkerStep ==
  \/ \E k \in 1 .. MaxCaptures, sign \in BOOLEAN : CaptureInit(k, sign, sign)
  \/ \E k \in 1 .. MaxCaptures, ok \in BOOLEAN : CapturePut(k, ok)
  \/ \E k \in 1 .. MaxCaptures, thumbnail \in BOOLEAN, ok \in BOOLEAN :
       CaptureThumb(k, thumbnail, ok)
  \/ \E k \in 1 .. MaxCaptures : CaptureFinalize(k)
\* the popup's steps that no user starts
PopupStep ==
  \/ \E delivered \in BOOLEAN,
        accessToken \in {Undefined, <<GeneratePAT(1)>>}, blob \in BOOLEAN,
        type \in {"image", "video"} :
       SendCaptureMedia(delivered, accessToken, blob, type)
  \/ CaptureResponse
  \/ \E message \in popup.inbox : OnMessage(message)

PopupNext ==
  \/ \E user \in {"A"} :
       /\ nextTokenId = 1
       /\ CreateToken(user, <<"a">>)
       /\ UNCHANGED procVars
  \/ \E user \in {"A"}, id \in DOMAIN assets :
       /\ DeleteAsset(user, id, TRUE, TRUE)
       /\ UNCHANGED procVars
  \/ \E k \in 1 .. MaxCaptures : ToggleSelected(k)
  \/ CaptureSelected
  \/ \E delivered \in BOOLEAN,
        accessToken \in {Undefined, <<GeneratePAT(1)>>}, blob \in BOOLEAN,
        type \in {"image", "video"} :
       SendCaptureMedia(delivered, accessToken, blob, type)
  \/ CaptureResponse
  \/ \E message \in popup.inbox : OnMessage(message)
  \/ \E k \in 1 .. MaxCaptures, sign \in BOOLEAN : CaptureInit(k, sign, sign)
  \/ \E k \in 1 .. MaxCaptures, ok \in BOOLEAN : CapturePut(k, ok)
  \/ \E k \in 1 .. MaxCaptures, thumbnail \in BOOLEAN, ok \in BOOLEAN :
       CaptureThumb(k, thumbnail, ok)
  \/ \E k \in 1 .. MaxCaptures : CaptureFinalize(k)

\* the worker serves every request it took, and the popup's event loop runs
\* every continuation and listener that is ready; the user may stop clicking
PopupSpec ==
  /\ Init
  /\ [][PopupNext]_vars
  /\ WF_vars(WorkerStep)
  /\ WF_vars(PopupStep)

\* C28: a candidate shown as 'uploading' whose capture the worker has finished
\* handling, with success or with an error, is eventually shown as
\* 'complete' or 'error'.
CaptureResolves ==
  \A k \in 1 .. MaxCaptures :
     (/\ popup.candidates[k].status = "uploading"
      /\ captures[k].pc \in {"done", "failed"})
       ~> popup.candidates[k].status \in {"complete", "error"}

\* ------------------------------------------------- batches of the uploader
\* the asset ids of the files of the snapshot ids that are 'done' in files, in
\* snapshot order
RECURSIVE DoneAssetIds(_, _)
DoneAssetIds(files, ids) ==
  IF ids = <<>> THEN <<>>
  ELSE LET at == {k \in DOMAIN files : files[k].id = Head(ids)}
       IN (IF \E k \in at : files[k].status = "done"
           THEN <<files[CHOOSE k \in at : files[k].status = "done"].assetId[1]>>
           ELSE <<>>) \o DoneAssetIds(files, Tail(ids))

\* C29: when a run of uploadFiles ends, every file that was pending at its
\* start is 'done' or 'error', and onUploadComplete has been called once with
\* the asset ids of the 'done' files in upload order, or not at all when no
\* file is 'done'; onUploadComplete is called at no other time, and a step in
\* which a file becomes 'error' changes the status of no other file but the
\* next of the run, which starts.
BatchIsolation ==
  [][/\ (uploader.isUploading /\ ~uploader'.isUploading) =>
          LET ids == uploader.pendingFiles
              done == DoneAssetIds(uploader'.files, ids)
          IN /\ \A j \in DOMAIN ids : \E k \in DOMAIN uploader'.files :
                  /\ uploader'.files[k].id = ids[j]
                  /\ uploader'.files[k].status \in {"done", "error"}
             /\ uploader'.notified =
                  IF done # <<>> THEN Append(uploader.notified, done)
                  ELSE uploader.notified
     /\ uploader'.notified # uploader.notified =>
          uploader.isUploading /\ ~uploader'.isUploading
     /\ \A k \in DOMAIN uploader.files :
          (/\ uploader.isUploading
           /\ uploader.files[k].status # "error"
           /\ uploader'.files[k].status = "error") =>
             /\ uploader.files[k].id = Current
             /\ \A m \in DOMAIN uploader.files \ {k} :
                  \/ uploader'.files[m].status = uploader.files[m].status
                  \/ /\ uploader.i < Len(uploader.pendingFiles)
                     /\ uploader.files[m].id = uploader.pendingFiles[uploader.i + 1]
                     /\ uploader'.files[m].status = "uploading"
                     /\ uploader'.pc = "init"
    ]_vars

\* C29 witness: a run of two files has ended; the first file failed, the
\* second is 'done', and onUploadComplete was called once, with the asset id
\* of the second file alone
SecondFileDoneAfterFirstFailed ==
  /\ ~uploader.isUploading
  /\ Len(uploader.files) >= 2
  /\ uploader.files[1].status = "error"
  /\ uploader.files[2].status = "done"
  /\ uploader.notified = <<<<uploader.files[2].assetId[1]>>>>

====
